---- MODULE Spec2Model ----
(***************************************************************************)
(* Authentication subsystem of the NBA prediction backend (src/app/auth.py) *)
(* as a state machine: AuthConfig, PasswordManager, TokenManager and the    *)
(* request gate (HTTPBearer `security` followed by get_current_user).       *)
(*                                                                          *)
(* Library behaviour the code relies on is modelled at the call site:       *)
(*   PyJWT 2.x   jwt.encode / jwt.decode (HS256, exp and iat claims)        *)
(*   bcrypt      gensalt / hashpw / checkpw                                 *)
(*   FastAPI     HTTPBearer(auto_error=True)                                *)
(* Time is counted in ticks of 1/TicksPerSec second so that the truncation  *)
(* of datetimes to whole seconds done by jwt.encode is visible.             *)
(***************************************************************************)
EXTENDS Integers, Sequences, FiniteSets, TLC

VARIABLES
    proc,           \* the server process: environment, start-up position, self-test
    users,          \* the users table of the database
    svc,            \* the last service-level operation, its procedure calls and result
    auth_config,    \* the global AuthConfig object (auth.py:35)
    build,          \* versions of the installed libraries (fixed per process)
    now,            \* wall clock, in ticks since the epoch of the model
    call,           \* the last direct TokenManager call and its outcome
    req,            \* per request: position in the dependency chain and outcome
    usedSalts,      \* salts bcrypt.gensalt has returned so far
    hashLog,        \* completed hash_password calls: <<[plain, res]>>
    pwcheck         \* the last verify_password call and its outcome

vars == <<proc, users, svc, auth_config, build, now, call, req, usedSalts,
          hashLog, pwcheck>>

----------------------------------------------------------------------------
(* Bounds of the model *)

TicksPerSec == 2        \* clock resolution: ticks per second
Margin == 2             \* clock points kept after the issue instant and the expiry
MaxHashes == 2          \* hash_password calls kept in hashLog

(* Program constants *)

SecondsPerHour == 3600
DefaultExpireHours == 24
DefaultBcryptRounds == 12
BcryptMaxBytes == 72
HTTP_401_UNAUTHORIZED == 401
HTTP_403_FORBIDDEN == 403

HourTicks == SecondsPerHour * TicksPerSec

----------------------------------------------------------------------------
(* Python values.  Every value is a record [ty, n, s] so that values of   *)
(* different Python types can be compared: an int keeps its number in n, a  *)
(* str its text in s; "obj" is a value json cannot serialise (a Decimal, a  *)
(* datetime, bytes).                                                        *)

None == [ty |-> "none", n |-> 0, s |-> ""]
PyInt(i) == [ty |-> "int", n |-> i, s |-> ""]
PyStr(t) == [ty |-> "str", n |-> 0, s |-> t]
PyObj == [ty |-> "obj", n |-> 0, s |-> ""]

\* bool(v), as `not v` evaluates it
Truthy(v) ==
    CASE v.ty = "int" -> v.n # 0
      [] v.ty = "str" -> v.s # ""
      [] v.ty = "none" -> FALSE
      [] OTHER -> TRUE

\* dict.get(k): None when the key is missing
Get(d, k) == IF k \in DOMAIN d THEN d[k] ELSE None

\* json.dumps of one value (inside jwt.encode): a JSON value, or TypeError
JsonDumps(v) ==
    CASE v.ty = "int" -> [ok |-> TRUE, j |-> [j |-> "number", n |-> v.n, s |-> ""]]
      [] v.ty = "str" -> [ok |-> TRUE, j |-> [j |-> "string", n |-> 0, s |-> v.s]]
      [] v.ty = "none" -> [ok |-> TRUE, j |-> [j |-> "null", n |-> 0, s |-> ""]]
      [] OTHER -> [ok |-> FALSE, j |-> [j |-> "null", n |-> 0, s |-> ""]]

\* json.loads that hands every scalar back as text
JsonLoads_text(j) ==
    CASE j.j = "number" -> PyStr("1")
      [] j.j = "string" -> PyStr(j.s)
      [] OTHER -> None

\* json.loads of one value (inside jwt.decode)
JsonLoads(j) ==
    CASE j.j = "number" -> PyInt(j.n)
      [] j.j = "string" -> PyStr(j.s)
      [] OTHER -> None

PyDatetime(t) == [ty |-> "datetime", n |-> t, s |-> ""]

----------------------------------------------------------------------------
(* AuthConfig (auth.py:15-35) and the library builds                        *)

Secrets == {"secret-A", "secret-B"}
ExpireHours == {1, DefaultExpireHours}

\* AuthConfig.__init__ with JWT_SECRET = secret and JWT_EXPIRE_HOURS = hours
AuthConfig(secret, hours) ==
    [jwt_secret |-> secret,
     jwt_algorithm |-> "HS256",
     jwt_expire_hours |-> hours,
     bcrypt_rounds |-> DefaultBcryptRounds]

\* HTTPBearer answers a missing credential with 403 (FastAPI before 0.122)
\* or with 401 and a WWW-Authenticate header (later releases); bcrypt
\* truncates a password to 72 bytes (before 5.0) or rejects a longer one.
Builds == [bearer_status : {HTTP_403_FORBIDDEN, HTTP_401_UNAUTHORIZED},
           bcrypt_long : {"truncate", "reject"}]

----------------------------------------------------------------------------
(* PyJWT: jwt.encode and jwt.decode                                         *)

TimeClaims == {"exp", "iat", "nbf"}

NoPayload == [k \in {} |-> None]
NoToken == [form |-> "none", alg |-> "", key |-> "", payload |-> NoPayload]
\* the empty string and a string that is no JWT
EmptyToken == [form |-> "empty", alg |-> "", key |-> "", payload |-> NoPayload]
GarbageToken == [form |-> "garbage", alg |-> "", key |-> "", payload |-> NoPayload]

\* calendar.timegm(dt.utctimetuple()): whole seconds, the fraction is dropped
Timegm(ticks) == ticks \div TicksPerSec

\* jwt.encode(payload, key, algorithm): datetimes of the time claims become
\* integer seconds, the payload is serialised as JSON and signed with key.
jwt_encode(payload, key, algorithm) ==
    LET conv == [k \in DOMAIN payload |->
                    IF k \in TimeClaims /\ payload[k].ty = "datetime"
                    THEN PyInt(Timegm(payload[k].n))
                    ELSE payload[k]]
    IN  IF \E k \in DOMAIN conv : ~JsonDumps(conv[k]).ok
        THEN [ok |-> FALSE, exc |-> "TypeError", token |-> NoToken]
        ELSE [ok |-> TRUE, exc |-> "",
              token |-> [form |-> "jwt", alg |-> algorithm, key |-> key,
                         payload |-> [k \in DOMAIN conv |-> JsonDumps(conv[k]).j]]]

\* jwt.decode that still accepts a token at the very second of its expiry
jwt_decode_late(token, key, algorithms, t) ==
    LET bad(e) == [ok |-> FALSE, exc |-> e, payload |-> NoPayload]
        exp == token.payload["exp"]
    IN  IF token.form # "jwt" \/ token.alg \notin algorithms \/ token.key # key
        THEN bad("InvalidTokenError")
        ELSE IF "exp" \in DOMAIN token.payload /\ exp.n * TicksPerSec < t
        THEN bad("ExpiredSignatureError")
        ELSE [ok |-> TRUE, exc |-> "",
              payload |-> [k \in DOMAIN token.payload |->
                              JsonLoads(token.payload[k])]]

\* jwt.decode(token, key, algorithms) at clock reading t: the segments are
\* parsed, the header's alg must be allowed, the signature must verify under
\* key, and exp (when present) must lie in the future: exp <= now is expired.
\* The iat of every token of the model lies in the past, where it is accepted.
jwt_decode(token, key, algorithms, t) ==
    LET bad(e) == [ok |-> FALSE, exc |-> e, payload |-> NoPayload]
        exp == token.payload["exp"]
    IN  CASE token.form # "jwt" -> bad("DecodeError")
          [] token.form = "jwt" /\ token.alg \notin algorithms ->
                bad("InvalidAlgorithmError")
          [] token.form = "jwt" /\ token.alg \in algorithms /\ token.key # key ->
                bad("InvalidSignatureError")
          [] OTHER ->
                IF "exp" \in DOMAIN token.payload /\ exp.j # "number"
                THEN bad("DecodeError")
                ELSE IF "exp" \in DOMAIN token.payload /\ exp.n * TicksPerSec <= t
                THEN bad("ExpiredSignatureError")
                ELSE [ok |-> TRUE, exc |-> "",
                      payload |-> [k \in DOMAIN token.payload |->
                                      JsonLoads(token.payload[k])]]

----------------------------------------------------------------------------
(* TokenManager (auth.py:93-199)                                            *)

ClaimKeys == {"user_id", "username", "email"}

AuthError(m) == [ok |-> FALSE, exc |-> "AuthError", msg |-> m,
                 token |-> NoToken, payload |-> NoPayload]

\* create_access_token reading the claims with user_data.get
create_access_token_get(user_data, t) ==
    LET expire == t + auth_config.jwt_expire_hours * HourTicks
        payload == [k \in ClaimKeys \cup {"exp", "iat", "type"} |->
                      CASE k = "exp" -> PyDatetime(expire)
                        [] k = "iat" -> PyDatetime(t)
                        [] k = "type" -> PyStr("access_token")
                        [] OTHER -> Get(user_data, k)]
        enc == jwt_encode(payload, auth_config.jwt_secret, auth_config.jwt_algorithm)
    IN  IF enc.ok
        THEN [ok |-> TRUE, exc |-> "", msg |-> "",
              token |-> enc.token, payload |-> NoPayload]
        ELSE AuthError("Failed to create access token")

\* TokenManager.create_access_token(user_data) called at clock reading t
create_access_token(user_data, t) ==
    IF ~(ClaimKeys \subseteq DOMAIN user_data)
    THEN AuthError("Failed to create access token")       \* KeyError
    ELSE
      LET expire == t + auth_config.jwt_expire_hours * HourTicks
          payload == [k \in ClaimKeys \cup {"exp", "iat", "type"} |->
                        CASE k = "exp" -> PyDatetime(expire)
                          [] k = "iat" -> PyDatetime(t)
                          [] k = "type" -> PyStr("access_token")
                          [] OTHER -> user_data[k]]
          enc == jwt_encode(payload, auth_config.jwt_secret, auth_config.jwt_algorithm)
      IN  IF enc.ok
          THEN [ok |-> TRUE, exc |-> "", msg |-> "",
                token |-> enc.token, payload |-> NoPayload]
          ELSE AuthError("Failed to create access token")

\* verify_token without the check of the type discriminator
verify_token_anytype(token, t) ==
    LET dec == jwt_decode(token, auth_config.jwt_secret,
                          {auth_config.jwt_algorithm}, t)
    IN  IF dec.ok
        THEN [ok |-> TRUE, exc |-> "", msg |-> "",
              token |-> NoToken, payload |-> dec.payload]
        ELSE IF dec.exc = "ExpiredSignatureError"
        THEN AuthError("Token has expired")
        ELSE AuthError("Invalid token")

\* TokenManager.verify_token(token) called at clock reading t
verify_token(token, t) ==
    LET dec == jwt_decode(token, auth_config.jwt_secret,
                          {auth_config.jwt_algorithm}, t)
    IN  IF dec.ok
        THEN IF Get(dec.payload, "type") # PyStr("access_token")
             \* AuthError("Invalid token type") is raised inside the try and
             \* caught by `except Exception`
             THEN AuthError("Token verification failed")
             ELSE [ok |-> TRUE, exc |-> "", msg |-> "",
                   token |-> NoToken, payload |-> dec.payload]
        ELSE IF dec.exc = "ExpiredSignatureError"
        THEN AuthError("Token has expired")
        ELSE AuthError("Invalid token")

\* TokenManager.extract_user_from_token(token) called at clock reading t
extract_user_from_token(token, t) ==
    LET v == verify_token(token, t)
    IN  IF v.ok
        THEN [ok |-> TRUE, exc |-> "", msg |-> "", token |-> NoToken,
              payload |-> [k \in ClaimKeys |-> Get(v.payload, k)]]
        ELSE v

----------------------------------------------------------------------------
(* Inputs                                                                   *)

\* user_data dictionaries handed to create_access_token: any subset of the
\* keys; "type" stands for a key the function does not read.
DataKeys == ClaimKeys \cup {"type"}

DataValues(k) ==
    CASE k = "user_id" -> {PyInt(1), PyInt(0), None, PyObj}
      [] k = "username" -> {PyStr("alice")}
      [] k = "email" -> {PyStr("alice@example.com")}
      [] OTHER -> {PyStr("admin")}

AllDataValues == UNION {DataValues(k) : k \in DataKeys}

Bob == [k \in ClaimKeys |->
          CASE k = "user_id" -> PyInt(2)
            [] k = "username" -> PyStr("bob")
            [] OTHER -> PyStr("bob@example.com")]

UserDatas ==
    {Bob} \cup
    UNION {{d \in [ks -> AllDataValues] : \A k \in ks : d[k] \in DataValues(k)} :
           ks \in SUBSET DataKeys}

\* the expiry distance of the configuration, in ticks
ExpireTicks == auth_config.jwt_expire_hours * HourTicks

\* the clock readings of the model: around an issue at the epoch, around
\* the expiry of such a token, and one hour (and more) later
ClockPoints ==
    (0 .. Margin) \cup ((ExpireTicks - 1) .. (ExpireTicks + Margin))
        \cup ((ExpireTicks + HourTicks) .. (ExpireTicks + HourTicks + Margin))

\* the readings at which the presented tokens were issued
IssuePoints == 0 .. Margin

MaxClock == ExpireTicks + HourTicks + Margin

JNum(i) == [j |-> "number", n |-> i, s |-> ""]
JStr(t) == [j |-> "string", n |-> 0, s |-> t]

\* a payload create_access_token could have produced for alice
GoodForgedPayload ==
    [k \in ClaimKeys \cup {"exp", "iat", "type"} |->
        CASE k = "user_id" -> JNum(1)
          [] k = "username" -> JStr("alice")
          [] k = "email" -> JStr("alice@example.com")
          [] k = "iat" -> JNum(0)
          [] k = "type" -> JStr("access_token")
          [] OTHER -> JNum(Timegm(MaxClock) + 1)]

Without(pl, key) == [k \in DOMAIN pl \ {key} |-> pl[k]]

\* payloads of tokens the service did not issue: the good payload, and the
\* good payload with its type, its expiry or its user_id altered or removed
ForgedPayloads ==
    {GoodForgedPayload}
    \cup {Without(GoodForgedPayload, k) : k \in {"type", "exp", "user_id"}}
    \cup {[GoodForgedPayload EXCEPT !["type"] = JStr("refresh_token")],
          [GoodForgedPayload EXCEPT !["exp"] = JNum(0)],
          [GoodForgedPayload EXCEPT !["user_id"] = JNum(0)],
          [GoodForgedPayload EXCEPT !["user_id"] = JStr("")]}

\* tokens a caller can make up: no JWT at all, an unsigned JWT, a JWT signed
\* with any secret (the configured one included) over any of the payloads
ForgedTokens ==
    {EmptyToken, GarbageToken,
     [form |-> "jwt", alg |-> "none", key |-> "", payload |-> GoodForgedPayload]}
    \cup {[form |-> "jwt", alg |-> "HS256", key |-> k, payload |-> pl] :
             k \in Secrets, pl \in ForgedPayloads}

\* a token together with where it came from
Issued(ud, t) ==
    [token |-> create_access_token(ud, t).token, origin |-> "issued",
     issuedAt |-> t, user_data |-> ud]

Forged(tok) ==
    [token |-> tok, origin |-> "forged", issuedAt |-> 0, user_data |-> NoPayload]

\* what a caller can present at the current clock reading: a token issued by
\* create_access_token at an earlier reading, or a forged one
Presentable ==
    {Issued(ud, t) : ud \in {d \in UserDatas : create_access_token(d, 0).ok},
                     t \in {c \in IssuePoints : c <= now}}
    \cup {Forged(tok) : tok \in ForgedTokens}

----------------------------------------------------------------------------
(* Direct calls of TokenManager                                             *)

NoCall == [op |-> "none", user_data |-> NoPayload, token |-> NoToken,
           origin |-> "", issuedAt |-> 0, at |-> 0, res |-> AuthError("")]

Requests == {"A", "B"}

NoCheck == [op |-> "none", plain |-> <<>>, hashed |-> <<>>, res |-> FALSE]

\* the clock moves forward to a later reading; the last call has returned
Tick(t) ==
    /\ t \in ClockPoints
    /\ t > now
    /\ now' = t
    /\ call' = NoCall
    /\ UNCHANGED <<proc, users, svc, auth_config, build, req, usedSalts, hashLog, pwcheck>>

\* a login that replaces the signing secret while it issues its token
CreateAccessToken_rotating(ud) ==
    /\ call' = [op |-> "create", user_data |-> ud, token |-> NoToken,
                origin |-> "", issuedAt |-> now, at |-> now,
                res |-> create_access_token(ud, now)]
    /\ auth_config' = [auth_config EXCEPT
                         !.jwt_secret = CHOOSE k \in Secrets : k # @]
    /\ UNCHANGED <<proc, users, svc, build, now, req, usedSalts, hashLog, pwcheck>>

CreateAccessToken(ud) ==
    /\ call' = [op |-> "create", user_data |-> ud, token |-> NoToken,
                origin |-> "", issuedAt |-> now, at |-> now,
                res |-> create_access_token(ud, now)]
    /\ UNCHANGED <<proc, users, svc, auth_config, build, now, req, usedSalts, hashLog, pwcheck>>

VerifyToken(p) ==
    /\ call' = [op |-> "verify", user_data |-> p.user_data, token |-> p.token,
                origin |-> p.origin, issuedAt |-> p.issuedAt, at |-> now,
                res |-> verify_token(p.token, now)]
    /\ UNCHANGED <<proc, users, svc, auth_config, build, now, req, usedSalts, hashLog, pwcheck>>

ExtractUserFromToken(p) ==
    /\ call' = [op |-> "extract", user_data |-> p.user_data, token |-> p.token,
                origin |-> p.origin, issuedAt |-> p.issuedAt, at |-> now,
                res |-> extract_user_from_token(p.token, now)]
    /\ UNCHANGED <<proc, users, svc, auth_config, build, now, req, usedSalts, hashLog, pwcheck>>


----------------------------------------------------------------------------
(* The authentication gate: HTTPBearer `security` (auth.py:13) and          *)
(* get_current_user (auth.py:201-244)                                       *)

Response(st, detail, www) == [status |-> st, detail |-> detail, www_authenticate |-> www]

NoResponse == Response(0, "", "")

\* the Authorization header of a request: absent, or a scheme and the
\* credentials after the first space (get_authorization_scheme_param)
NoHeader == [present |-> FALSE, scheme |-> "", token |-> EmptyToken]
Header(scheme, tok) == [present |-> TRUE, scheme |-> scheme, token |-> tok]

\* str.lower() on the schemes of the model
Lower(scheme) ==
    CASE scheme = "Bearer" -> "bearer"
      [] scheme = "BEARER" -> "bearer"
      [] scheme = "Basic" -> "basic"
      [] OTHER -> scheme

\* HTTPBearer that hands an empty credential on to the dependency
HTTPBearer_lax(h) ==
    IF h.present /\ Lower(h.scheme) # "bearer"
    THEN [ok |-> FALSE, credentials |-> NoToken,
          response |-> Response(HTTP_403_FORBIDDEN, "Invalid authentication credentials", "")]
    ELSE [ok |-> TRUE, credentials |-> h.token, response |-> NoResponse]

\* HTTPBearer(auto_error=True).__call__(request)
HTTPBearer(h) ==
    LET not_authenticated ==
            IF build.bearer_status = HTTP_403_FORBIDDEN
            THEN Response(HTTP_403_FORBIDDEN, "Not authenticated", "")
            ELSE Response(HTTP_401_UNAUTHORIZED, "Not authenticated", "Bearer")
        wrong_scheme ==
            IF build.bearer_status = HTTP_403_FORBIDDEN
            THEN Response(HTTP_403_FORBIDDEN, "Invalid authentication credentials", "")
            ELSE Response(HTTP_401_UNAUTHORIZED, "Not authenticated", "Bearer")
    IN  IF ~(h.present /\ h.scheme # "" /\ h.token.form # "empty")
        THEN [ok |-> FALSE, credentials |-> NoToken, response |-> not_authenticated]
        ELSE IF Lower(h.scheme) # "bearer"
        THEN [ok |-> FALSE, credentials |-> NoToken, response |-> wrong_scheme]
        ELSE [ok |-> TRUE, credentials |-> h.token, response |-> NoResponse]

\* get_current_user that lets a token without user_id through
get_current_user_nouid(token, t) ==
    LET user_info == extract_user_from_token(token, t)
    IN  IF user_info.ok
        THEN [ok |-> TRUE, user |-> user_info.payload, response |-> NoResponse]
        ELSE [ok |-> FALSE, user |-> NoPayload,
              response |-> Response(HTTP_401_UNAUTHORIZED,
                                    "Could not validate credentials", "Bearer")]

\* get_current_user that reports the reason of the rejection to the caller
get_current_user_reason(token, t) ==
    LET user_info == extract_user_from_token(token, t)
    IN  IF user_info.ok /\ Truthy(Get(user_info.payload, "user_id"))
        THEN [ok |-> TRUE, user |-> user_info.payload, response |-> NoResponse]
        ELSE [ok |-> FALSE, user |-> NoPayload,
              response |-> Response(HTTP_401_UNAUTHORIZED, user_info.msg, "Bearer")]

\* get_current_user that also asks the users table for the user of the token
get_current_user_checked(token, t) ==
    LET user_info == extract_user_from_token(token, t)
    IN  IF user_info.ok /\ Truthy(Get(user_info.payload, "user_id"))
              /\ \E u \in users : u.user_id = user_info.payload["user_id"].n
        THEN [ok |-> TRUE, user |-> user_info.payload, response |-> NoResponse]
        ELSE [ok |-> FALSE, user |-> NoPayload,
              response |-> Response(HTTP_401_UNAUTHORIZED,
                                    "Could not validate credentials", "Bearer")]

\* get_current_user(credentials) called at clock reading t
get_current_user(token, t) ==
    LET user_info == extract_user_from_token(token, t)
        unauthorized(detail) ==
            [ok |-> FALSE, user |-> NoPayload,
             response |-> Response(HTTP_401_UNAUTHORIZED, detail, "Bearer")]
    IN  IF user_info.ok
        THEN IF ~Truthy(Get(user_info.payload, "user_id"))
             THEN unauthorized("Could not validate credentials")  \* AuthError
             ELSE [ok |-> TRUE, user |-> user_info.payload, response |-> NoResponse]
        ELSE IF user_info.exc = "AuthError"
        THEN unauthorized("Could not validate credentials")
        ELSE unauthorized("Authentication failed")

\* the headers a caller can send at the current clock reading
Headers ==
    {NoHeader, Header("", EmptyToken)}
    \cup {Header(sch, EmptyToken) : sch \in {"Bearer", "Basic"}}
    \cup {Header(sch, p.token) : sch \in {"Bearer", "bearer", "Basic"},
                                 p \in Presentable}

IdleReq ==
    [pc |-> "idle", header |-> NoHeader, credentials |-> NoToken,
     at |-> 0, verify_calls |-> 0, verified |-> AuthError(""),
     user |-> NoPayload, handler_entered |-> FALSE, response |-> NoResponse]

\* a request with Authorization header h arrives
Arrive(r, h) ==
    /\ req[r].pc = "idle"
    /\ req' = [req EXCEPT ![r] = [IdleReq EXCEPT !.pc = "security", !.header = h]]
    /\ UNCHANGED <<proc, users, svc, auth_config, build, now, call, usedSalts, hashLog, pwcheck>>

\* the `security` dependency is resolved: it raises or yields the credentials
Security(r) ==
    /\ req[r].pc = "security"
    /\ LET b == HTTPBearer(req[r].header)
       IN  req' = [req EXCEPT ![r] =
                IF b.ok
                THEN [@ EXCEPT !.pc = "auth", !.credentials = b.credentials]
                ELSE [@ EXCEPT !.pc = "rejected", !.response = b.response]]
    /\ UNCHANGED <<proc, users, svc, auth_config, build, now, call, usedSalts, hashLog, pwcheck>>

\* get_current_user runs on the credentials: it raises or yields the user
GetCurrentUser(r) ==
    /\ req[r].pc = "auth"
    /\ LET g == get_current_user(req[r].credentials, now)
       IN  req' = [req EXCEPT ![r] =
                [@ EXCEPT !.pc = IF g.ok THEN "handler" ELSE "rejected",
                          !.at = now,
                          !.verify_calls = @ + 1,
                          !.verified = verify_token(req[r].credentials, now),
                          !.user = g.user,
                          !.response = g.response]]
    /\ UNCHANGED <<proc, users, svc, auth_config, build, now, call, usedSalts, hashLog, pwcheck>>

\* the protected handler runs with the user as current_user
Handler(r) ==
    /\ req[r].pc = "handler"
    /\ req' = [req EXCEPT ![r] =
            [@ EXCEPT !.pc = "done", !.handler_entered = TRUE,
                      !.response = Response(200, "", "")]]
    /\ UNCHANGED <<proc, users, svc, auth_config, build, now, call, usedSalts, hashLog, pwcheck>>

\* the response has been sent
Respond(r) ==
    /\ req[r].pc \in {"rejected", "done"}
    /\ req' = [req EXCEPT ![r] = IdleReq]
    /\ UNCHANGED <<proc, users, svc, auth_config, build, now, call, usedSalts, hashLog, pwcheck>>


----------------------------------------------------------------------------
(* PasswordManager (auth.py:41-91) over bcrypt                              *)

\* A plaintext argument: a str as its sequence of code points, or a value
\* that is no str.
Str(cps) == [ty |-> "str", cp |-> cps]
NotAStr == [ty |-> "none", cp |-> <<>>]

Rep(n, c) == [i \in 1 .. n |-> c]

IsSurrogate(c) == c >= 55296 /\ c <= 57343

\* the UTF-8 bytes of one code point
Utf8Char(c) ==
    IF c < 128 THEN <<c>>
    ELSE IF c < 2048 THEN <<192 + (c \div 64), 128 + (c % 64)>>
    ELSE <<224 + (c \div 4096), 128 + ((c \div 64) % 64), 128 + (c % 64)>>

RECURSIVE Utf8(_)
Utf8(cps) == IF cps = <<>> THEN <<>> ELSE Utf8Char(Head(cps)) \o Utf8(Tail(cps))

\* value.encode('utf-8')
str_encode(v) ==
    IF v.ty # "str"
    THEN [ok |-> FALSE, exc |-> "AttributeError", bytes |-> <<>>]
    ELSE IF \E i \in DOMAIN v.cp : IsSurrogate(v.cp[i])
    THEN [ok |-> FALSE, exc |-> "UnicodeEncodeError", bytes |-> <<>>]
    ELSE [ok |-> TRUE, exc |-> "", bytes |-> Utf8(v.cp)]

\* A stored hash argument: a bcrypt string "$2b$<rounds>$<salt><digest>", a
\* string that is no bcrypt hash, the empty string, or a value that is no
\* str.  The digest is kept as what it was computed from.
NoDigest == [key |-> <<>>, salt |-> 0, rounds |-> 0]
BcryptString(rounds, salt, digest) ==
    [kind |-> "bcrypt", rounds |-> rounds, salt |-> salt, digest |-> digest]
GarbageHash == [kind |-> "garbage", rounds |-> 0, salt |-> 0, digest |-> NoDigest]
EmptyHash == [kind |-> "empty", rounds |-> 0, salt |-> 0, digest |-> NoDigest]
NotAStrHash == [kind |-> "nonstr", rounds |-> 0, salt |-> 0, digest |-> NoDigest]

\* bcrypt.gensalt(rounds): "$2b$<rounds>$" and 16 random bytes, here the
\* salt the caller has drawn
bcrypt_gensalt(rounds, drawn) == BcryptString(rounds, drawn, NoDigest)

Prefix(bytes, n) == IF Len(bytes) <= n THEN bytes ELSE SubSeq(bytes, 1, n)

\* bcrypt.hashpw(password, salt): the salt (or the hash used as salt) must
\* parse; the digest depends on the first 72 bytes of the password, on the
\* salt and on the rounds; a longer password is cut or refused by the build.
bcrypt_hashpw(password, salt) ==
    IF salt.kind # "bcrypt"
    THEN [ok |-> FALSE, exc |-> "ValueError", hash |-> GarbageHash]
    ELSE IF build.bcrypt_long = "reject" /\ Len(password) > BcryptMaxBytes
    THEN [ok |-> FALSE, exc |-> "ValueError", hash |-> GarbageHash]
    ELSE [ok |-> TRUE, exc |-> "",
          hash |-> BcryptString(salt.rounds, salt.salt,
                       [key |-> Prefix(password, BcryptMaxBytes),
                        salt |-> salt.salt, rounds |-> salt.rounds])]

\* bcrypt.checkpw(password, hashed_password)
bcrypt_checkpw(password, hashed) ==
    LET ret == bcrypt_hashpw(password, hashed)
    IN  IF ret.ok
        THEN [ok |-> TRUE, exc |-> "", value |-> (ret.hash = hashed)]
        ELSE [ok |-> FALSE, exc |-> ret.exc, value |-> FALSE]

HashError == [ok |-> FALSE, exc |-> "AuthError", hash |-> GarbageHash]

\* hash_password that salts every password with the same salt
hash_password_fixed_salt(plain_password, drawn) ==
    LET password_bytes == str_encode(plain_password)
        hashed == bcrypt_hashpw(password_bytes.bytes,
                                bcrypt_gensalt(auth_config.bcrypt_rounds, 1))
    IN  IF password_bytes.ok /\ hashed.ok
        THEN [ok |-> TRUE, exc |-> "", hash |-> hashed.hash]
        ELSE HashError

\* PasswordManager.hash_password(plain_password), gensalt drawing `drawn`
hash_password(plain_password, drawn) ==
    LET password_bytes == str_encode(plain_password)
        salt == bcrypt_gensalt(auth_config.bcrypt_rounds, drawn)
        hashed == bcrypt_hashpw(password_bytes.bytes, salt)
    IN  IF ~password_bytes.ok
        THEN HashError
        ELSE IF ~hashed.ok
        THEN HashError
        ELSE [ok |-> TRUE, exc |-> "", hash |-> hashed.hash]

\* verify_password that lets the exception of a failed check escape
verify_password_raising(plain_password, hashed_password) ==
    LET password_bytes == str_encode(plain_password)
        check == bcrypt_checkpw(password_bytes.bytes, hashed_password)
    IN  IF password_bytes.ok /\ hashed_password.kind # "nonstr" /\ check.ok
        THEN [raised |-> FALSE, value |-> check.value]
        ELSE [raised |-> TRUE, value |-> FALSE]

\* PasswordManager.verify_password(plain_password, hashed_password)
verify_password(plain_password, hashed_password) ==
    LET password_bytes == str_encode(plain_password)
        check == bcrypt_checkpw(password_bytes.bytes, hashed_password)
    IN  IF ~password_bytes.ok
        THEN [raised |-> FALSE, value |-> FALSE]          \* except Exception
        ELSE IF hashed_password.kind = "nonstr"
        THEN [raised |-> FALSE, value |-> FALSE]          \* AttributeError
        ELSE IF ~check.ok
        THEN [raised |-> FALSE, value |-> FALSE]          \* ValueError
        ELSE [raised |-> FALSE, value |-> check.value]

----------------------------------------------------------------------------
(* The server process: the imports of main.py (main.py:10-13), which build  *)
(* db_config and auth_config, and the lifespan start-up (main.py:25-47)     *)

\* the environment of the process; None is an unset variable
Envs ==
    [JWT_SECRET : {None, PyStr("")} \cup {PyStr(sec) : sec \in Secrets},
     JWT_EXPIRE_HOURS : {None, PyStr("0"), PyStr("1"), PyStr("x")},
     DB_USER : {None, PyStr("nba")}, DB_PASSWORD : {PyStr("pw")}]

\* os.getenv(key, default)
os_getenv(env, key, default) == IF env[key] = None THEN default ELSE env[key]

\* int(v) for an int or one of the texts of the model
py_int(v) ==
    IF v.ty = "int" THEN [ok |-> TRUE, n |-> v.n]
    ELSE IF v.s = "0" THEN [ok |-> TRUE, n |-> 0]
    ELSE IF v.s = "1" THEN [ok |-> TRUE, n |-> 1]
    ELSE [ok |-> FALSE, n |-> 0]                          \* ValueError

\* the name auth_config before (or without) its assignment
Unbound ==
    [jwt_secret |-> "", jwt_algorithm |-> "", jwt_expire_hours |-> 0,
     bcrypt_rounds |-> 0]

\* AuthConfig.__init__ that takes whatever JWT_SECRET holds
AuthConfig_init_unchecked(env) ==
    LET jwt_secret == os_getenv(env, "JWT_SECRET", PyStr(""))
        hours == py_int(os_getenv(env, "JWT_EXPIRE_HOURS", PyInt(DefaultExpireHours)))
    IN  IF ~hours.ok
        THEN [ok |-> FALSE, exc |-> "ValueError", config |-> Unbound]
        ELSE [ok |-> TRUE, exc |-> "", config |-> AuthConfig(jwt_secret.s, hours.n)]

\* AuthConfig.__init__ (auth.py:18-32) run in environment env
AuthConfig_init(env) ==
    LET jwt_secret == os_getenv(env, "JWT_SECRET", None)
        hours == py_int(os_getenv(env, "JWT_EXPIRE_HOURS", PyInt(DefaultExpireHours)))
    IN  IF ~Truthy(jwt_secret)
        THEN [ok |-> FALSE, exc |-> "ValueError", config |-> Unbound]
        ELSE IF ~hours.ok
        THEN [ok |-> FALSE, exc |-> "ValueError", config |-> Unbound]
        ELSE [ok |-> TRUE, exc |-> "", config |-> AuthConfig(jwt_secret.s, hours.n)]

\* DatabaseConfig.__init__ (database.py:19-31): True unless it raises
DatabaseConfig_init(env) ==
    Truthy(os_getenv(env, "DB_USER", None))
        /\ Truthy(os_getenv(env, "DB_PASSWORD", None))

\* test_user_data of the self-test
TestUserData ==
    [k \in ClaimKeys |->
        CASE k = "user_id" -> PyInt(1)
          [] k = "username" -> PyStr("test_user")
          [] OTHER -> PyStr("test@example.com")]

NoSelfTest == [ran |-> FALSE, ok |-> FALSE, step |-> "", identity |-> NoPayload]
SelfTestFailed(step) ==
    [ran |-> TRUE, ok |-> FALSE, step |-> step, identity |-> NoPayload]

\* initialize_auth_on_startup that logs a failed step and returns
initialize_auth_on_startup_lenient(t) ==
    LET test_token == create_access_token(TestUserData, t)
        verified_data == verify_token(test_token.token, t)
    IN  [ran |-> TRUE, ok |-> TRUE, step |-> "done",
         identity |-> IF verified_data.ok
                      THEN [k \in ClaimKeys |-> Get(verified_data.payload, k)]
                      ELSE NoPayload]

\* initialize_auth_on_startup() (auth.py:325-366) at clock reading t: the
\* step that raised, or the identity the test token verified to; gensalt
\* draws salt 0, which no later call draws
initialize_auth_on_startup(t) ==
    LET TestPassword == Str(<<116, 101, 115, 116, 49, 50, 51>>)   \* "test123"
        hashed == hash_password(TestPassword, 0)
        test_token == create_access_token(TestUserData, t)
        verified_data == verify_token(test_token.token, t)
    IN  IF ~Truthy(PyStr(auth_config.jwt_secret))
        THEN SelfTestFailed("jwt_secret")
        ELSE IF ~hashed.ok
        THEN SelfTestFailed("hash_password")
        ELSE IF ~verify_password(TestPassword, hashed.hash).value
        THEN SelfTestFailed("verify_password")
        ELSE IF ~test_token.ok
        THEN SelfTestFailed("create_access_token")
        ELSE IF ~verified_data.ok
        THEN SelfTestFailed("verify_token")
        ELSE IF Get(verified_data.payload, "user_id") # TestUserData["user_id"]
        THEN SelfTestFailed("user_id")
        ELSE [ran |-> TRUE, ok |-> TRUE, step |-> "done",
              identity |-> [k \in ClaimKeys |-> Get(verified_data.payload, k)]]

\* the process: pc is "boot" before the imports, "imported" after them,
\* "serving" once the lifespan start-up has yielded, "failed" when an import
\* or the start-up raised (failed_in tells which)

\* a process that has started in an environment giving the configuration
Started ==
    [pc |-> "serving",
     env |-> CHOOSE e \in Envs : /\ DatabaseConfig_init(e)
                                 /\ AuthConfig_init(e).ok
                                 /\ AuthConfig_init(e).config = auth_config,
     failed_in |-> "",
     selftest |-> initialize_auth_on_startup(0)]

NoSvc == [op |-> "none"]

\* `import main`: app.database builds db_config, then app.auth builds
\* auth_config; an exception ends the process
ImportMain ==
    /\ proc.pc = "boot"
    /\ LET a == AuthConfig_init(proc.env)
       IN  IF DatabaseConfig_init(proc.env) /\ a.ok
           THEN /\ auth_config' = a.config
                /\ proc' = [proc EXCEPT !.pc = "imported"]
           ELSE /\ auth_config' = auth_config
                /\ proc' = [proc EXCEPT !.pc = "failed", !.failed_in = "import"]
    /\ UNCHANGED <<users, svc, build, now, call, req, usedSalts, hashLog, pwcheck>>

\* lifespan start-up: initialize_database_on_startup() with the database
\* reachable or not, then initialize_auth_on_startup(); any exception is
\* raised again as RuntimeError and the server does not start
Lifespan(db_up) ==
    /\ proc.pc = "imported"
    /\ LET t == IF db_up THEN initialize_auth_on_startup(now) ELSE NoSelfTest
       IN  proc' = [proc EXCEPT
                      !.selftest = t,
                      !.pc = IF db_up /\ t.ok THEN "serving" ELSE "failed",
                      !.failed_in = IF db_up /\ t.ok THEN "" ELSE "lifespan"]
    /\ UNCHANGED <<users, svc, auth_config, build, now, call, req, usedSalts,
                   hashLog, pwcheck>>

\* the server takes requests only after the lifespan start-up has yielded
Serving == proc.pc = "serving"

\* what clients present while the process is looked at from its start
StartupPresentable == {Forged(GarbageToken), Issued(Bob, 0)}

InitStartup ==
    /\ proc \in {[pc |-> "boot", env |-> env, failed_in |-> "",
                   selftest |-> NoSelfTest] : env \in Envs}
    /\ users = {}
    /\ svc = NoSvc
    /\ auth_config = Unbound
    /\ build = CHOOSE b \in Builds : TRUE
    /\ now = 0
    /\ call = NoCall
    /\ req = [r \in Requests |-> IdleReq]
    /\ usedSalts = {}
    /\ hashLog = <<>>
    /\ pwcheck = NoCheck

NextStartup ==
    \/ ImportMain
    \/ \E db_up \in BOOLEAN : Lifespan(db_up)
    \/ Serving /\ \E r \in Requests : Arrive(r, NoHeader)
    \/ Serving /\ \E r \in Requests : \E p \in StartupPresentable :
          Arrive(r, Header("Bearer", p.token))
    \/ Serving /\ \E r \in Requests : Security(r)
    \/ Serving /\ \E r \in Requests : GetCurrentUser(r)
    \/ Serving /\ \E r \in Requests : Handler(r)
    \/ Serving /\ \E r \in Requests : Respond(r)
    \/ Serving /\ CreateAccessToken(Bob)
    \/ Serving /\ \E p \in StartupPresentable : VerifyToken(p)

SpecStartup == InitStartup /\ [][NextStartup]_vars

----------------------------------------------------------------------------
(* The specifications of TokenManager and of the gate alone, in a started   *)
(* process                                                                  *)

InitToken ==
    /\ auth_config \in {AuthConfig(sec, h) : sec \in Secrets, h \in ExpireHours}
    /\ build = CHOOSE b \in Builds : TRUE
    /\ proc = Started
    /\ users = {}
    /\ svc = NoSvc
    /\ now = 0
    /\ call = NoCall
    /\ req = [r \in Requests |-> IdleReq]
    /\ usedSalts = {}
    /\ hashLog = <<>>
    /\ pwcheck = NoCheck

NextToken ==
    \/ \E t \in ClockPoints : Tick(t)
    \/ \E ud \in UserDatas : CreateAccessToken(ud)
    \/ \E p \in Presentable : VerifyToken(p)
    \/ \E p \in Presentable : ExtractUserFromToken(p)

SpecToken == InitToken /\ [][NextToken]_vars

Init ==
    /\ auth_config \in {AuthConfig(sec, h) : sec \in Secrets, h \in ExpireHours}
    /\ build \in {b \in Builds : b.bcrypt_long = "truncate"}
    /\ proc = Started
    /\ users = {}
    /\ svc = NoSvc
    /\ now = 0
    /\ call = NoCall
    /\ req = [r \in Requests |-> IdleReq]
    /\ usedSalts = {}
    /\ hashLog = <<>>
    /\ pwcheck = NoCheck

\* one request at a time: requests share no state, so the states of one
\* request do not depend on what another request does meanwhile
Quiet == \A q \in Requests : req[q].pc = "idle"

Next ==
    \/ \E t \in ClockPoints : Tick(t)
    \/ Quiet /\ \E r \in Requests : \E h \in Headers : Arrive(r, h)
    \/ \E r \in Requests : Security(r)
    \/ \E r \in Requests : GetCurrentUser(r)
    \/ \E r \in Requests : Handler(r)
    \/ \E r \in Requests : Respond(r)

Spec == Init /\ [][Next]_vars

\* the salt gensalt draws next: 16 random bytes, so a drawn salt does not
\* come back (a repetition has probability 2^-128 and is left out); salts
\* are only compared with each other, so the next unused number stands for
\* any fresh salt
FreshSalt == Cardinality(usedSalts) + 1

\* the plaintexts of the model: short ones that differ in letter case, one
\* of exactly 72 bytes, two of 73 bytes that differ in the last byte only,
\* one with a two-byte character, the empty one, one that cannot be encoded
\* and one that is no str
Plaintexts ==
    {Str(<<80, 119, 49>>), Str(<<112, 119, 49>>), Str(<<>>),
     Str(Rep(BcryptMaxBytes, 97)), Str(Rep(BcryptMaxBytes, 97) \o <<49>>),
     Str(Rep(BcryptMaxBytes, 97) \o <<50>>),
     Str(<<233, 49>>), Str(<<55296>>), NotAStr}

\* the plaintexts hash_password is called with
HashedPlaintexts ==
    {Str(<<80, 119, 49>>), Str(Rep(BcryptMaxBytes, 97) \o <<49>>),
     Str(<<233, 49>>), Str(<<55296>>)}

\* the stored hashes verify_password is called with: the hashes returned so
\* far, such a hash with its digest damaged, and values that are no hash
StoredHashes ==
    {GarbageHash, EmptyHash, NotAStrHash}
    \cup {hashLog[i].res.hash : i \in {j \in DOMAIN hashLog : hashLog[j].res.ok}}
    \cup {[hashLog[i].res.hash EXCEPT !.digest = NoDigest] :
             i \in {j \in DOMAIN hashLog : hashLog[j].res.ok}}

HashPassword(plain) ==
    /\ Len(hashLog) < MaxHashes
    /\ hashLog' = Append(hashLog,
                     [plain |-> plain, res |-> hash_password(plain, FreshSalt)])
    /\ usedSalts' = IF str_encode(plain).ok
                    THEN usedSalts \cup {FreshSalt} ELSE usedSalts
    /\ pwcheck' = NoCheck
    /\ UNCHANGED <<proc, users, svc, auth_config, build, now, call, req>>

VerifyPassword(plain, hashed) ==
    /\ pwcheck' = [op |-> "verify", plain |-> plain, hashed |-> hashed,
                   res |-> verify_password(plain, hashed)]
    /\ UNCHANGED <<proc, users, svc, auth_config, build, now, call, req, usedSalts, hashLog>>

InitPassword ==
    /\ auth_config = AuthConfig("secret-A", DefaultExpireHours)
    /\ build \in {b \in Builds : b.bearer_status = HTTP_401_UNAUTHORIZED}
    /\ proc = Started
    /\ users = {}
    /\ svc = NoSvc
    /\ now = 0
    /\ call = NoCall
    /\ req = [r \in Requests |-> IdleReq]
    /\ usedSalts = {}
    /\ hashLog = <<>>
    /\ pwcheck = NoCheck

NextPassword ==
    \/ \E plain \in HashedPlaintexts : HashPassword(plain)
    \/ \E plain \in Plaintexts : \E hashed \in StoredHashes :
          VerifyPassword(plain, hashed)

SpecPassword == InitPassword /\ [][NextPassword]_vars

----------------------------------------------------------------------------
(* The service layer: create_login_response (auth.py:246-279), AuthService  *)
(* (services/auth_services.py) and the routers that call stored procedures  *)

\* create_login_response with the lifetime counted in minutes
create_login_response_minutes(user_data, t) ==
    LET access_token == create_access_token(user_data, t)
    IN  [ok |-> access_token.ok, exc |-> access_token.exc,
         msg |-> "Failed to create login response",
         response |->
            [access_token |-> access_token.token, token_type |-> "bearer",
             expires_in |-> auth_config.jwt_expire_hours * 60,
             user |-> IF access_token.ok
                      THEN [k \in ClaimKeys |-> user_data[k]] ELSE NoPayload]]

\* create_login_response(user_data) called at clock reading t; an exception
\* of create_access_token (a missing key included) becomes AuthError
create_login_response(user_data, t) ==
    LET access_token == create_access_token(user_data, t)
    IN  IF ~access_token.ok
        THEN [ok |-> FALSE, exc |-> "AuthError",
              msg |-> "Failed to create login response",
              response |-> [access_token |-> NoToken, token_type |-> "",
                            expires_in |-> 0, user |-> NoPayload]]
        ELSE [ok |-> TRUE, exc |-> "", msg |-> "",
              response |->
                 [access_token |-> access_token.token,
                  token_type |-> "bearer",
                  expires_in |-> auth_config.jwt_expire_hours * SecondsPerHour,
                  user |-> [k \in ClaimKeys |-> user_data[k]]]]

\* the user data of a login: what authenticate_user builds from a row of the
\* users table, all three keys with values of the database (an integer or
\* NULL, strings) and possibly a key create_login_response does not read;
\* and, for the failure path, a dictionary without email
LoginUserDatas ==
    {d \in UserDatas : /\ ClaimKeys \ {"email"} \subseteq DOMAIN d
                       /\ \A k \in DOMAIN d : d[k].ty # "obj"}

CreateLoginResponse(ud) ==
    /\ svc' = [op |-> "create_login_response", user_data |-> ud, at |-> now,
               res |-> create_login_response(ud, now)]
    /\ UNCHANGED <<proc, users, auth_config, build, now, call, req, usedSalts,
                   hashLog, pwcheck>>

\* the passwords the registration model admits (models/user.py:22-48): 8 to
\* 128 characters, at least one letter and one digit (str.isalpha and
\* str.isdigit on the code points below 256)
MinPasswordChars == 8
MaxPasswordChars == 128
IsLetter(c) ==
    \/ c >= 65 /\ c <= 90
    \/ c >= 97 /\ c <= 122
    \/ c \in {170, 181, 186}
    \/ c >= 192 /\ c <= 255 /\ c \notin {215, 247}
IsDigit(c) == (c >= 48 /\ c <= 57) \/ c \in {178, 179, 185}
validate_password(v) ==
    /\ v.ty = "str"
    /\ Len(v.cp) >= MinPasswordChars /\ Len(v.cp) <= MaxPasswordChars
    /\ \E i \in DOMAIN v.cp : IsLetter(v.cp[i])
    /\ \E i \in DOMAIN v.cp : IsDigit(v.cp[i])

\* str.lower() on the code points below 256
py_lower(cps) ==
    [i \in DOMAIN cps |->
        IF (cps[i] >= 65 /\ cps[i] <= 90)
              \/ (cps[i] >= 192 /\ cps[i] <= 222 /\ cps[i] # 215)
        THEN cps[i] + 32 ELSE cps[i]]

\* UserCreate that keeps the username as it was typed
UserCreate_keepcase(body) ==
    [ok |-> Len(body.username.cp) >= 3 /\ validate_password(body.password)
               /\ \A i \in DOMAIN body.username.cp :
                     IsLetter(body.username.cp[i]) \/ IsDigit(body.username.cp[i])
                        \/ body.username.cp[i] \in {95, 45},
     username |-> body.username, email |-> body.email,
     password |-> body.password]

\* the UserCreate model (models/user.py:17-48) built from a request body:
\* the length of the username, validate_username, validate_password
UserCreate(body) ==
    LET v == body.username.cp
        bare == SelectSeq(v, LAMBDA c : c \notin {95, 45})     \* '_' and '-'
        valid == /\ Len(v) >= 3 /\ Len(v) <= 50
                 /\ bare # <<>>
                 /\ \A i \in DOMAIN bare : IsLetter(bare[i]) \/ IsDigit(bare[i])
                 /\ validate_password(body.password)
    IN  [ok |-> valid,
         username |-> IF valid THEN Str(py_lower(v)) ELSE body.username,
         email |-> body.email, password |-> body.password]

\* the LoginRequest model (models/user.py:50-58): v.lower().strip()
LoginRequest(body) ==
    LET v == py_lower(body.username.cp)
        White(c) == c \in {9, 10, 11, 12, 13, 32}
        inside == {i \in DOMAIN v : ~White(v[i])}
        first == CHOOSE i \in inside : \A j \in inside : i <= j
        last == CHOOSE i \in inside : \A j \in inside : i >= j
    IN  [username |-> Str(IF inside = {} THEN <<>> ELSE SubSeq(v, first, last)),
         password |-> body.password]

ProcCall(name, args) == [name |-> name, args |-> args]

\* create_user that hands the submitted password to the procedure
create_user_plain(user_data, drawn, outcome) ==
    [calls |-> <<ProcCall("create_user",
                   <<user_data.username, user_data.email,
                     [kind |-> "plain", rounds |-> 0, salt |-> 0,
                      digest |-> [key |-> Utf8(user_data.password.cp),
                                  salt |-> 0, rounds |-> 0]]>>)>>,
     hash |-> hash_password(user_data.password, drawn),
     exc |-> IF outcome = "row" THEN "" ELSE "DatabaseError",
     msg |-> ""]

\* AuthService.create_user(user_data), gensalt drawing `drawn` and the
\* create_user procedure ending as `outcome`: a row, the signal [3001] or
\* [3002], another database error, or no row at all
create_user(user_data, drawn, outcome) ==
    LET hashed_password == hash_password(user_data.password, drawn)
    IN  IF ~hashed_password.ok
        THEN [calls |-> <<>>, hash |-> hashed_password, exc |-> "AuthError",
              msg |-> "Failed to hash password"]
        ELSE [calls |-> <<ProcCall("create_user",
                             <<user_data.username, user_data.email,
                               hashed_password.hash>>)>>,
              hash |-> hashed_password,
              exc |-> CASE outcome = "row" -> ""
                        [] outcome \in {"3001", "3002"} -> "ValueError"
                        [] OTHER -> "DatabaseError",
              msg |-> CASE outcome = "row" -> ""
                        [] outcome = "3001" -> "Username already exists"
                        [] outcome = "3002" -> "Email already exists"
                        [] OTHER -> "Failed to create user: {e}"]

\* AuthService.validate_registration_data(user_data), the procedures
\* check_username_exists and check_email_exists answering username_exists
\* and email_exists: "1", "0", or "error" for a DatabaseError of
\* call_procedure, which check_username_exists and check_email_exists
\* catch, returning False
validate_registration_data(user_data, username_exists, email_exists) ==
    LET c1 == ProcCall("check_username_exists", <<Str(py_lower(user_data.username.cp))>>)
        c2 == ProcCall("check_email_exists", <<Str(py_lower(user_data.email.cp))>>)
    IN  IF username_exists = "1"
        THEN [valid |-> FALSE, msg |-> "Username already exists", calls |-> <<c1>>]
        ELSE IF email_exists = "1"
        THEN [valid |-> FALSE, msg |-> "Email already exists", calls |-> <<c1, c2>>]
        ELSE [valid |-> TRUE, msg |-> "", calls |-> <<c1, c2>>]

\* POST /auth/register (routers/auth.py:21-51) with a request body:
\* validate_registration_data with the answers db.username_exists and
\* db.email_exists of the two checks, then create_user
register_user(body, drawn, db) ==
    LET user_data == UserCreate(body)
        v == validate_registration_data(user_data, db.username_exists, db.email_exists)
        created == create_user(user_data, drawn, db.create)
        NoHash == [ok |-> FALSE, exc |-> "", hash |-> GarbageHash]
    IN  IF ~user_data.ok
        THEN [status |-> 422, detail |-> "", calls |-> <<>>, hash |-> NoHash]
        ELSE IF ~v.valid
        THEN [status |-> 400, detail |-> v.msg, calls |-> v.calls, hash |-> NoHash]
        ELSE [status |-> CASE created.exc = "" -> 201
                           [] created.exc = "ValueError" -> 400
                           [] OTHER -> 500,
              detail |-> CASE created.exc = "" -> ""
                           [] created.exc = "ValueError" -> created.msg
                           [] created.exc = "DatabaseError" ->
                                 "Registration failed due to system error"
                           [] OTHER -> "Internal server error",
              calls |-> v.calls \o created.calls,
              hash |-> created.hash]

\* the request bodies of registrations: usernames in three spellings of one
\* name, one with a hyphen and one with a space, each with a password of 8
\* characters and with one the model refuses; and one body with a password
\* of 73 characters
RegisterBodies ==
    [username : {Str(<<66, 111, 98>>), Str(<<98, 111, 98>>), Str(<<66, 79, 66>>),
                 Str(<<65, 45, 49>>), Str(<<97, 32, 98>>)},
     email : {Str(<<65, 64, 120>>)},
     password : {Str(<<80, 97, 115, 115, 119, 48, 114, 100>>), Str(<<80, 119, 49>>)}]
    \cup {[username |-> Str(<<66, 111, 98>>), email |-> Str(<<65, 64, 120>>),
           password |-> Str(Rep(BcryptMaxBytes, 97) \o <<49>>)]}

RegisterUser(body, db) ==
    /\ Cardinality(usedSalts) < MaxHashes
    /\ LET r == register_user(body, FreshSalt, db)
           args == r.calls[Len(r.calls)].args
       IN  /\ r.status = 201 => \A u \in users : u.username # args[1]
           /\ svc' = [op |-> "register", body |-> body, calls |-> r.calls,
                      hash |-> r.hash, status |-> r.status]
           /\ users' = IF r.status = 201
                       THEN users \cup {[user_id |-> Cardinality(users) + 1,
                                         username |-> args[1], email |-> args[2],
                                         password |-> args[3]]}
                       ELSE users
           /\ usedSalts' = IF r.hash.ok \/ r.hash.exc # ""
                           THEN usedSalts \cup {FreshSalt} ELSE usedSalts
    /\ UNCHANGED <<proc, auth_config, build, now, call, req, hashLog, pwcheck>>

\* authenticate_user that returns the user it finds without verify_password
authenticate_user_unverified(login_data, outcome) ==
    LET result == {u \in users : u.username = login_data.username}
        user == CHOOSE u \in result : TRUE
        Text(cps) == CASE cps = <<98, 111, 98>> -> "bob"
                       [] cps = <<97, 45, 49>> -> "a-1"
                       [] cps = <<65, 64, 120>> -> "A@x"
                       [] OTHER -> "?"
    IN  [calls |-> <<ProcCall("get_user_for_login", <<login_data.username>>)>>,
         user |-> IF outcome = "error" \/ result = {}
                  THEN NoPayload
                  ELSE [k \in DataKeys |->
                          CASE k = "user_id" -> PyInt(user.user_id)
                            [] k = "username" -> PyStr(Text(user.username.cp))
                            [] k = "email" -> PyStr(Text(user.email.cp))
                            [] OTHER -> PyObj]]

\* AuthService.authenticate_user(login_data): the rows get_user_for_login
\* returns are those of the users with the given name, or the call fails
authenticate_user(login_data, outcome) ==
    LET result == {u \in users : u.username = login_data.username}
        user == CHOOSE u \in result : TRUE
        Text(cps) == CASE cps = <<98, 111, 98>> -> "bob"
                       [] cps = <<97, 45, 49>> -> "a-1"
                       [] cps = <<65, 64, 120>> -> "A@x"
                       [] OTHER -> "?"
    IN  [calls |-> <<ProcCall("get_user_for_login", <<login_data.username>>)>>,
         user |-> IF outcome = "error" \/ result = {}
                  THEN NoPayload
                  ELSE IF ~verify_password(login_data.password, user.password).value
                  THEN NoPayload
                  ELSE [k \in DataKeys |->
                          CASE k = "user_id" -> PyInt(user.user_id)
                            [] k = "username" -> PyStr(Text(user.username.cp))
                            [] k = "email" -> PyStr(Text(user.email.cp))
                            [] OTHER -> PyObj]]

\* the request bodies of logins
LoginBodies ==
    [username : {Str(<<66, 111, 98>>), Str(<<32, 66, 79, 66, 32>>),
                 Str(<<98, 111, 98>>), Str(<<97, 45, 49>>), Str(<<122>>)},
     password : {Str(<<80, 97, 115, 115, 119, 48, 114, 100>>),
                 Str(<<112, 97, 115, 115, 119, 48, 114, 100>>)}]

\* POST /auth/login (routers/auth.py:53-87): authenticate_user, then
\* create_login_response; None makes the handler raise ValueError
LoginUser(body, outcome) ==
    /\ LET a == authenticate_user(LoginRequest(body), outcome)
       IN  svc' = [op |-> "login", body |-> body, lookup |-> outcome,
                   calls |-> a.calls, user |-> a.user, at |-> now,
                   res |-> IF a.user = NoPayload
                           THEN [ok |-> FALSE, exc |-> "ValueError",
                                 msg |-> "Invalid username or password",
                                 response |-> create_login_response(NoPayload, now).response]
                           ELSE create_login_response(a.user, now)]
    /\ UNCHANGED <<proc, users, auth_config, build, now, call, req, usedSalts,
                   hashLog, pwcheck>>

InitAccounts ==
    /\ auth_config = AuthConfig("secret-A", DefaultExpireHours)
    /\ build \in {b \in Builds : b.bearer_status = HTTP_401_UNAUTHORIZED}
    /\ proc = Started
    /\ users = {}
    /\ svc = NoSvc
    /\ now = 0
    /\ call = NoCall
    /\ req = [r \in Requests |-> IdleReq]
    /\ usedSalts = {}
    /\ hashLog = <<>>
    /\ pwcheck = NoCheck

\* what the database answers to the calls of one registration: the two
\* checks find nothing and create_user returns the row; or one check finds
\* the name or the address; or the first check fails; or create_user
\* signals a duplicate, fails or returns no row
NextAccounts ==
    \/ LET Db(u, e, c) == [username_exists |-> u, email_exists |-> e, create |-> c]
       IN  \E body \in RegisterBodies :
           \E db \in {Db("0", "0", "row"), Db("1", "0", "row"), Db("0", "1", "row"),
                      Db("error", "0", "row"), Db("0", "0", "3001"),
                      Db("0", "0", "3002"), Db("0", "0", "error"),
                      Db("0", "0", "empty")} :
              RegisterUser(body, db)
    \/ \E body \in LoginBodies : \E outcome \in {"rows", "error"} :
          LoginUser(body, outcome)

SpecAccounts == InitAccounts /\ [][NextAccounts]_vars

----------------------------------------------------------------------------
(* Requests served concurrently: each request runs its dependencies and its *)
(* handler in its own task or thread, in any interleaving with the others,  *)
(* with logins, with registrations and with changes of the users table      *)

\* the row of bob (user_id 2) in the users table
BobRow ==
    [user_id |-> Bob["user_id"].n, username |-> Str(<<98, 111, 98>>),
     email |-> Str(<<65, 64, 120>>),
     password |-> hash_password(Str(<<80, 97, 115, 115, 119, 48, 114, 100>>), 0).hash]

\* create_user has stored a row (auth_services.py:34-38)
StoreUser(u) ==
    /\ u \notin users
    /\ users' = users \cup {u}
    /\ UNCHANGED <<proc, svc, auth_config, build, now, call, req, usedSalts,
                   hashLog, pwcheck>>

\* a row is changed or removed behind the service; get_user_by_id then finds
\* another row or none (routers/auth.py:94-99)
ChangeUser(u, v) ==
    /\ u \in users
    /\ users' = (users \ {u}) \cup v
    /\ UNCHANGED <<proc, svc, auth_config, build, now, call, req, usedSalts,
                   hashLog, pwcheck>>

\* the tokens presented: those issued to bob at a login so far, and one
\* signed with another secret
ConcurrentPresentable ==
    {Issued(Bob, t) : t \in {c \in IssuePoints : c <= now}}
    \cup {Forged([form |-> "jwt", alg |-> "HS256",
                  key |-> CHOOSE k \in Secrets : k # auth_config.jwt_secret,
                  payload |-> GoodForgedPayload])}

\* the administrative endpoints of routers/leaderboard.py (90-240):
\* get_current_user first, then the path parameter (gt=0), then the service
\* method, which calls the procedure of the same name; `outcome` is the
\* message of the DatabaseError the procedure ends with, or "" for a row
LeaderboardAdmin(name, token, fixture_id, outcome) ==
    /\ LET g == get_current_user(token, now)
           args == IF name = "recalculate_all_leaderboards" THEN <<>>
                   ELSE <<fixture_id, 101, 99>>
           valid == name = "recalculate_all_leaderboards" \/ fixture_id > 0
       IN  svc' = [op |-> name, user |-> g.user,
                   calls |-> IF g.ok /\ valid THEN <<ProcCall(name, args)>> ELSE <<>>,
                   status |->
                      IF ~g.ok THEN HTTP_401_UNAUTHORIZED
                      ELSE IF ~valid THEN 422
                      ELSE IF outcome = "" THEN 200
                      ELSE IF name # "recalculate_all_leaderboards"
                                /\ outcome = "not found" THEN 404
                      ELSE IF name = "complete_fixture"
                                /\ outcome = "already completed" THEN 400
                      ELSE IF name = "update_fixture_scores"
                                /\ outcome \in {"not completed", "same as current"}
                      THEN 400
                      ELSE 500]
    /\ UNCHANGED <<proc, users, auth_config, build, now, call, req, usedSalts,
                   hashLog, pwcheck>>

\* the body of get_next_fixtures_merged_with_predictions
\* (routers/fixtures.py:116-140): pred_map keeps the last row of each
\* match_num; a row, being a non-empty dict, is true
merge_with_predictions(fixtures, predicted) ==
    LET rows(m) == {i \in DOMAIN predicted : predicted[i].match_num = m}
        pred(m) == predicted[CHOOSE i \in rows(m) : \A j \in rows(m) : j <= i]
    IN  [i \in DOMAIN fixtures |->
            LET f == fixtures[i]
            IN  [match_num |-> f.match_num,
                 home_score |-> IF rows(f.match_num) # {}
                                THEN pred(f.match_num).pred_home_score
                                ELSE f.home_score,
                 away_score |-> IF rows(f.match_num) # {}
                                THEN pred(f.match_num).pred_away_score
                                ELSE f.away_score]]

\* the rows get_next_fixtures returns: a fixture with scores and one without
FixtureLists ==
    LET F(m, h, a) == [match_num |-> m, home_score |-> h, away_score |-> a]
    IN  {<<F(1, PyInt(0), PyInt(0)), F(2, None, None)>>,
         <<F(2, None, None)>>, <<>>}

\* the rows get_next_fixtures_with_user_predictions returns: up to two of a
\* prediction for match 1, another prediction for match 1 (made in another
\* group), a prediction for match 2, and the rows of matches 1 and 2
\* without prediction (NULL in the pred_ columns)
PredictedLists ==
    LET P(m, h, a) == [match_num |-> m, pred_home_score |-> h, pred_away_score |-> a]
        Rows == {P(1, PyInt(101), PyInt(99)), P(1, PyInt(95), PyInt(90)),
                 P(2, PyInt(88), PyInt(80)), P(1, None, None), P(2, None, None)}
    IN  {<<>>} \cup {<<p>> : p \in Rows} \cup {<<p, q>> : p \in Rows, q \in Rows}

\* GET /fixtures/next-fixtures-with-predictions (routers/fixtures.py:108-146)
NextFixturesWithPredictions(token, fixtures, predicted) ==
    /\ LET g == get_current_user(token, now)
       IN  svc' = [op |-> "next-fixtures-with-predictions", user |-> g.user,
                   fixtures |-> fixtures, predicted |-> predicted,
                   status |-> IF g.ok THEN 200 ELSE HTTP_401_UNAUTHORIZED,
                   response |-> IF g.ok
                                THEN merge_with_predictions(fixtures, predicted)
                                ELSE <<>>]
    /\ UNCHANGED <<proc, users, auth_config, build, now, call, req, usedSalts,
                   hashLog, pwcheck>>

InitService ==
    /\ auth_config \in {AuthConfig("secret-A", h) : h \in ExpireHours}
    /\ build = CHOOSE b \in Builds : b.bearer_status = HTTP_401_UNAUTHORIZED
    /\ proc = Started
    /\ users = {}
    /\ svc = NoSvc
    /\ now = 0
    /\ call = NoCall
    /\ req = [r \in Requests |-> IdleReq]
    /\ usedSalts = {}
    /\ hashLog = <<>>
    /\ pwcheck = NoCheck

NextService ==
    \/ \E t \in IssuePoints : Tick(t)
    \/ \E ud \in LoginUserDatas : CreateLoginResponse(ud)
    \/ \E name \in {"complete_fixture", "update_fixture_scores",
                     "recalculate_all_leaderboards"} :
          \E p \in ConcurrentPresentable : \E fixture_id \in {0, 7} :
             \E outcome \in {"", "not found", "already completed",
                             "not completed", "deadlock"} :
                LeaderboardAdmin(name, p.token, fixture_id, outcome)
    \/ \E p \in ConcurrentPresentable :
          \E fixtures \in FixtureLists : \E predicted \in PredictedLists :
             NextFixturesWithPredictions(p.token, fixtures, predicted)

SpecService == InitService /\ [][NextService]_vars

InitConcurrent ==
    /\ auth_config = AuthConfig("secret-A", 1)
    /\ build = CHOOSE b \in Builds : b.bearer_status = HTTP_401_UNAUTHORIZED
    /\ proc = Started
    /\ users = {}
    /\ svc = NoSvc
    /\ now = 0
    /\ call = NoCall
    /\ req = [r \in Requests |-> IdleReq]
    /\ usedSalts = {}
    /\ hashLog = <<>>
    /\ pwcheck = NoCheck

NextConcurrent ==
    \/ \E t \in ClockPoints : Tick(t)
    \/ \E r \in Requests : \E p \in ConcurrentPresentable :
          Arrive(r, Header("Bearer", p.token))
    \/ \E r \in Requests : Security(r)
    \/ \E r \in Requests : GetCurrentUser(r)
    \/ \E r \in Requests : Handler(r)
    \/ \E r \in Requests : Respond(r)
    \/ CreateAccessToken(Bob)
    \/ StoreUser(BobRow)
    \/ \E v \in {{}, {[BobRow EXCEPT !.email = Str(<<98, 64, 120>>)]}} :
          ChangeUser(BobRow, v)

SpecConcurrent == InitConcurrent /\ [][NextConcurrent]_vars

----------------------------------------------------------------------------
(* Claims about TokenManager, checked under SpecToken                       *)

\* the last call verified (or extracted the user of) an issued token
VerifiedIssued ==
    call.op \in {"verify", "extract"} /\ call.origin = "issued"

\* the second at which the token of the last call was issued, in ticks
IssueSecond == Timegm(call.issuedAt) * TicksPerSec

\* C3 (as stated): a token issued at t with expiry H hours is accepted at
\* every time in [t, t + H) and rejected at every time >= t + H.
C3_AcceptedUntilIssuePlusExpiry ==
    VerifiedIssued =>
        (call.res.ok <=> call.at < call.issuedAt + ExpireTicks)

\* C3 (amended): the token is rejected, as expired, at every time >= t + H,
\* exactly at t + H included; it is accepted exactly at the times before the
\* whole second of t plus H, so that it is already rejected in the last
\* fraction of a second before t + H when t is not a whole second.
C3_ExpiryAtWholeSecond ==
    VerifiedIssued =>
        /\ call.res.ok <=> call.at < IssueSecond + ExpireTicks
        /\ call.at >= call.issuedAt + ExpireTicks =>
              ~call.res.ok /\ call.res.exc = "AuthError"
                           /\ call.res.msg = "Token has expired"

C3_Witness ==
    /\ call.op = "verify" /\ call.origin = "issued"
    /\ call.at = call.issuedAt + ExpireTicks
    /\ ~call.res.ok

\* C4: verifying a token returned by create_access_token(C) before its
\* expiry succeeds and gives back the user_id, username and email of C:
\* verify_token's payload agrees with C on the three claims, and
\* extract_user_from_token returns exactly these three fields of C.
C4_RoundTrip ==
    VerifiedIssued /\ call.at < IssueSecond + ExpireTicks =>
        /\ call.res.ok
        /\ \A k \in ClaimKeys : call.res.payload[k] = call.user_data[k]
        /\ call.op = "extract" =>
              call.res.payload = [k \in ClaimKeys |-> call.user_data[k]]

C4_Witness ==
    /\ call.op = "extract" /\ call.origin = "issued"
    /\ call.user_data = Bob
    /\ call.at > call.issuedAt
    /\ call.res.ok /\ call.res.payload = Bob

\* C5: verify_token returns a payload only for a token signed with the
\* configured secret (and algorithm) whose type is "access_token".
C5_OnlySignedAccessTokens ==
    call.op \in {"verify", "extract"} /\ call.res.ok =>
        /\ call.token.form = "jwt"
        /\ call.token.key = auth_config.jwt_secret
        /\ call.token.alg = auth_config.jwt_algorithm
        /\ "type" \in DOMAIN call.token.payload
        /\ call.token.payload["type"] = JStr("access_token")

\* a correctly signed, unexpired token of another type was rejected
C5_Witness ==
    /\ call.op = "verify"
    /\ call.token.form = "jwt"
    /\ call.token.key = auth_config.jwt_secret
    /\ call.token.payload = [GoodForgedPayload EXCEPT !["type"] = JStr("refresh_token")]
    /\ ~call.res.ok

\* C6: create_access_token fails with AuthError and returns no token
\* whenever user_id, username or email is missing from the user data.
C6_IncompleteClaimsFail ==
    call.op = "create" /\ ~(ClaimKeys \subseteq DOMAIN call.user_data) =>
        /\ ~call.res.ok
        /\ call.res.exc = "AuthError"
        /\ call.res.token = NoToken

C6_Witness ==
    /\ call.op = "create"
    /\ DOMAIN call.user_data = {"user_id", "username"}
    /\ call.res.exc = "AuthError"

----------------------------------------------------------------------------
(* Claims about the authentication gate, checked under Spec                 *)

\* the generic unauthorized response of get_current_user (auth.py:233-237)
Unauthorized ==
    Response(HTTP_401_UNAUTHORIZED, "Could not validate credentials", "Bearer")

\* the request carries no bearer credential: no Authorization header, a
\* header of another scheme, or the Bearer scheme with nothing after it
NoBearerCredential(h) ==
    \/ ~h.present
    \/ Lower(h.scheme) # "bearer"
    \/ h.token.form = "empty"

\* a correctly signed token of the right type, sent as a Bearer credential
\* after its expiry
ExpiredCredential(r) ==
    /\ req[r].verify_calls > 0
    /\ req[r].credentials.form = "jwt"
    /\ req[r].credentials.key = auth_config.jwt_secret
    /\ req[r].verified.msg = "Token has expired"

\* C1 (as stated): a request without Authorization header, one without the
\* Bearer scheme, one with an empty Bearer token and one with an expired
\* token are all answered with the same status and the same generic
\* unauthorized body, the one the expired token gets.
C1_FourRejectionsSameResponse ==
    \A r \in Requests :
        req[r].pc = "rejected"
            /\ (NoBearerCredential(req[r].header) \/ ExpiredCredential(r))
        => req[r].response = Unauthorized

\* C2: whatever makes verify_token reject the token, get_current_user
\* answers with the same status, the same detail and the same headers.
C2_RejectionReasonHidden ==
    \A r \in Requests :
        req[r].verify_calls > 0 /\ ~req[r].verified.ok =>
            /\ req[r].pc = "rejected"
            /\ req[r].response = Unauthorized

\* a token of the wrong type was rejected (AuthError raised inside the try)
C2_Witness ==
    \E r \in Requests :
        /\ req[r].pc = "rejected"
        /\ req[r].verified.msg = "Token verification failed"
        /\ req[r].response = Unauthorized

\* C7: a request without bearer credential is rejected by the `security`
\* dependency: verify_token is not called for it and the handler is not
\* entered.
C7_NoCredentialNoVerification ==
    \A r \in Requests :
        req[r].pc # "idle" /\ NoBearerCredential(req[r].header) =>
            /\ req[r].pc \in {"security", "rejected"}
            /\ req[r].verify_calls = 0
            /\ ~req[r].handler_entered
            /\ req[r].user = NoPayload

C7_Witness ==
    \E r \in Requests :
        /\ req[r].pc = "rejected"
        /\ ~req[r].header.present
        /\ req[r].response.status \in {HTTP_401_UNAUTHORIZED, HTTP_403_FORBIDDEN}

\* C8: the handler gets an identity only after verify_token succeeded on the
\* presented token and the claims hold a non-empty user_id; on a token
\* error, or without a non-empty user_id, the request ends rejected with
\* 401 and no identity.
C8_AcceptedOnlyVerifiedWithUserId ==
    \A r \in Requests :
        /\ req[r].pc \in {"handler", "done"} =>
              /\ req[r].verify_calls > 0
              /\ req[r].verified.ok
              /\ Truthy(Get(req[r].verified.payload, "user_id"))
              /\ req[r].user = [k \in ClaimKeys |-> Get(req[r].verified.payload, k)]
        /\ req[r].verify_calls > 0
              /\ (~req[r].verified.ok
                    \/ ~Truthy(Get(req[r].verified.payload, "user_id"))) =>
              /\ req[r].pc = "rejected"
              /\ req[r].response.status = HTTP_401_UNAUTHORIZED
              /\ req[r].user = NoPayload
              /\ ~req[r].handler_entered

\* a verified token whose user_id is None or 0 was rejected
C8_Witness ==
    \E r \in Requests :
        /\ req[r].pc = "rejected"
        /\ req[r].verified.ok
        /\ ~Truthy(Get(req[r].verified.payload, "user_id"))
        /\ req[r].response = Unauthorized

----------------------------------------------------------------------------
(* Claims about PasswordManager, checked under SpecPassword                 *)

\* the check of the last verify_password call fails inside: the plaintext
\* or the stored hash cannot be encoded, the stored hash is no bcrypt hash,
\* or the build refuses the length of the password
InternalFailure ==
    \/ pwcheck.plain.ty # "str"
    \/ \E i \in DOMAIN pwcheck.plain.cp : IsSurrogate(pwcheck.plain.cp[i])
    \/ pwcheck.hashed.kind # "bcrypt"
    \/ build.bcrypt_long = "reject" /\ Len(Utf8(pwcheck.plain.cp)) > BcryptMaxBytes

\* C9: verify_password never raises: it returns a boolean for every
\* plaintext and stored hash, and False whenever the check fails inside.
C9_VerifyPasswordFailsClosed ==
    pwcheck.op = "verify" =>
        /\ ~pwcheck.res.raised
        /\ pwcheck.res.value \in BOOLEAN
        /\ InternalFailure => pwcheck.res.value = FALSE

\* a plaintext that cannot be encoded met a stored hash that is no hash
C9_Witness ==
    /\ pwcheck.op = "verify"
    /\ pwcheck.plain = Str(<<55296>>)
    /\ pwcheck.hashed = EmptyHash
    /\ pwcheck.res = [raised |-> FALSE, value |-> FALSE]

\* C10: two hash_password calls that return a hash for the same password
\* return different hashes, and verify_password accepts the password
\* against each of them.
C10_FreshSaltBothVerify ==
    /\ \A i, j \in DOMAIN hashLog :
          i # j /\ hashLog[i].plain = hashLog[j].plain
                /\ hashLog[i].res.ok /\ hashLog[j].res.ok
          => hashLog[i].res.hash # hashLog[j].res.hash
    /\ \A i \in DOMAIN hashLog :
          pwcheck.op = "verify" /\ hashLog[i].res.ok
                /\ pwcheck.plain = hashLog[i].plain
                /\ pwcheck.hashed = hashLog[i].res.hash
          => pwcheck.res = [raised |-> FALSE, value |-> TRUE]

\* the second of two hashes of one password has just been verified
C10_Witness ==
    /\ Len(hashLog) >= 2
    /\ hashLog[1].plain = hashLog[2].plain
    /\ hashLog[1].res.ok /\ hashLog[2].res.ok
    /\ hashLog[1].res.hash # hashLog[2].res.hash
    /\ pwcheck.op = "verify"
    /\ pwcheck.plain = hashLog[2].plain
    /\ pwcheck.hashed = hashLog[2].res.hash
    /\ pwcheck.res.value = TRUE

\* C11 (as stated): for all passwords P1 # P2, among them passwords that
\* differ only in letter case and passwords of any length the registration
\* model admits, verify_password(P1, hash_password(P2)) is False.
C11_OtherPasswordRejected ==
    \A i \in DOMAIN hashLog :
        pwcheck.op = "verify" /\ hashLog[i].res.ok
            /\ pwcheck.hashed = hashLog[i].res.hash
            /\ pwcheck.plain.ty = "str"
            /\ pwcheck.plain # hashLog[i].plain
        => pwcheck.res.value = FALSE

----------------------------------------------------------------------------
(* Claims about the start of the process, checked under SpecStartup         *)

\* JWT_SECRET is unset or empty in the environment of the process
SecretAbsent == proc.env.JWT_SECRET \in {None, PyStr("")}

\* no request has been taken, no token has been issued or verified
NothingServed ==
    /\ \A r \in Requests : req[r] = IdleReq
    /\ call = NoCall

\* C12: without a JWT secret (unset or empty) the process fails to start:
\* it ends in the import of the application, before the start-up, and never
\* handles a request, issues a token, verifies a token or answers 401.
C12_NoSecretNoStart ==
    SecretAbsent =>
        /\ proc.pc \in {"boot", "failed"}
        /\ proc.pc = "failed" => proc.failed_in = "import"
        /\ auth_config = Unbound
        /\ ~proc.selftest.ran
        /\ NothingServed

\* the import failed on an empty secret alone
C12_Witness ==
    /\ proc.env.JWT_SECRET = PyStr("")
    /\ proc.env.DB_USER # None
    /\ proc.env.JWT_EXPIRE_HOURS = None
    /\ proc.pc = "failed" /\ proc.failed_in = "import"

\* C13: a request is taken only after the start-up self-test (hash a known
\* plaintext, verify it, issue a token for a known identity, verify it,
\* compare the identity) has passed, the verified identity being the known
\* one; when a step of the start-up fails the process ends in the start-up
\* and serves no request.
C13_SelfTestBeforeRequests ==
    /\ proc.pc = "serving" \/ ~NothingServed =>
          /\ proc.selftest.ran /\ proc.selftest.ok
          /\ proc.selftest.identity = TestUserData
    /\ proc.selftest.ran /\ ~proc.selftest.ok =>
          /\ proc.pc = "failed" /\ proc.failed_in = "lifespan"
          /\ NothingServed
    /\ proc.failed_in = "lifespan" => proc.pc = "failed" /\ NothingServed

\* the token of the self-test did not verify and the start-up was aborted
C13_Witness ==
    /\ proc.selftest.ran /\ proc.selftest.step = "verify_token"
    /\ proc.pc = "failed"

----------------------------------------------------------------------------
(* Claims about the service layer, checked under SpecService                *)

\* C14: for user data with user_id, username and email, the response of
\* create_login_response holds a token that verifies to the same identity,
\* token_type "bearer", expires_in equal to the configured hours times 3600,
\* which is the distance of exp from iat in the token, and as user exactly
\* the user_id, username and email of the input.
C14_LoginResponse ==
    svc.op = "create_login_response" /\ ClaimKeys \subseteq DOMAIN svc.user_data =>
        LET r == svc.res.response
            v == verify_token(r.access_token, svc.at)
        IN  /\ svc.res.ok
            /\ v.ok
            /\ \A k \in ClaimKeys : v.payload[k] = svc.user_data[k]
            /\ r.token_type = "bearer"
            /\ r.expires_in = auth_config.jwt_expire_hours * SecondsPerHour
            /\ r.expires_in = r.access_token.payload["exp"].n
                                 - r.access_token.payload["iat"].n
            /\ r.user = [k \in ClaimKeys |-> svc.user_data[k]]

\* a login response for a dictionary with a fourth key, issued between two
\* whole seconds
C14_Witness ==
    /\ svc.op = "create_login_response"
    /\ DOMAIN svc.user_data = DataKeys
    /\ svc.at % TicksPerSec # 0
    /\ svc.res.ok
    /\ DOMAIN svc.res.response.user = ClaimKeys

----------------------------------------------------------------------------
(* Claims about registration and login, checked under SpecAccounts          *)

HasUpper(cps) == \E i \in DOMAIN cps : cps[i] >= 65 /\ cps[i] <= 90

\* two names that differ in letter case at most
SameButCase(a, b) ==
    /\ Len(a) = Len(b)
    /\ \A i \in DOMAIN a :
          \/ a[i] = b[i]
          \/ a[i] >= 65 /\ a[i] <= 90 /\ b[i] = a[i] + 32
          \/ b[i] >= 65 /\ b[i] <= 90 /\ a[i] = b[i] + 32

\* the calls of the last operation to one of the procedures
CallsOf(names) ==
    {svc.calls[i] : i \in {j \in DOMAIN svc.calls : svc.calls[j].name \in names}}

\* C17: the username given to create_user and check_username_exists in a
\* registration and to get_user_for_login in a login is lowercase, and so
\* is every stored username; it is the submitted name but for letter case,
\* so that a registration or a login under a name that differs from a
\* stored one only in letter case addresses that stored account.
C17_UsernamesLowercase ==
    /\ \A u \in users : ~HasUpper(u.username.cp)
    /\ svc.op \in {"register", "login"} =>
          \A c \in CallsOf({"create_user", "check_username_exists",
                            "get_user_for_login"}) :
             /\ ~HasUpper(c.args[1].cp)
             /\ svc.op = "register" => SameButCase(c.args[1].cp, svc.body.username.cp)
             /\ \A u \in users :
                   SameButCase(u.username.cp, svc.body.username.cp)
                       => c.args[1] = u.username

\* a login as "Bob" was given the stored account bob
C17_Witness ==
    /\ svc.op = "login"
    /\ svc.body.username = Str(<<66, 111, 98>>)
    /\ svc.user # NoPayload
    /\ \E u \in users : u.username = Str(<<98, 111, 98>>) /\ u.user_id = 1
    /\ svc.calls[1].args[1] = Str(<<98, 111, 98>>)

\* C18: the password given to the create_user procedure is the output of
\* hash_password for the submitted password, a bcrypt hash the password
\* verifies against and never the password itself; when hash_password
\* fails the procedure is not called and nothing is stored.
C18_StoredHashIsHashOutput ==
    /\ \A u \in users : u.password.kind = "bcrypt"
    /\ svc.op = "register" =>
          /\ \A c \in CallsOf({"create_user"}) :
                LET out == hash_password(svc.body.password, c.args[3].salt)
                IN  /\ out.ok
                    /\ c.args[3] = out.hash
                    /\ c.args[3].digest.key # <<>>
                    /\ verify_password(svc.body.password, c.args[3]).value
          /\ ~hash_password(svc.body.password, 0).ok =>
                /\ CallsOf({"create_user"}) = {}
                /\ svc.status # 201

\* after a registration that stored a hash, one whose password bcrypt
\* refuses has ended without a call of create_user
C18_Witness ==
    /\ users # {}
    /\ svc.op = "register"
    /\ svc.hash.exc = "AuthError"
    /\ svc.status = 500
    /\ Len(svc.calls) = 2

----------------------------------------------------------------------------
(* Claims about concurrent requests, checked under SpecConcurrent           *)

\* C15: whatever other requests, logins and verifications run meanwhile,
\* the outcome of the token verification of a request (the claims it was
\* accepted with, or its rejection) is the one verify_token and
\* get_current_user give for its token and its time alone, under the
\* configuration built at the start, which nothing has written since.
C15_VerificationUnaffected ==
    /\ auth_config = AuthConfig_init(proc.env).config
    /\ \A r \in Requests :
          req[r].verify_calls > 0 =>
             LET g == get_current_user(req[r].credentials, req[r].at)
             IN  /\ req[r].verified = verify_token(req[r].credentials, req[r].at)
                 /\ req[r].user = g.user
                 /\ req[r].pc = "rejected" <=> ~g.ok

\* while a token was issued, one request stood accepted in its handler and
\* another, verified later, was rejected
C15_Witness ==
    /\ call.op = "create" /\ call.res.ok
    /\ \E r, q \in Requests :
          /\ req[r].pc = "handler" /\ req[r].verified.ok
          /\ req[q].pc = "rejected" /\ req[q].verify_calls > 0
          /\ req[q].at > req[r].at

\* the request presented a token issued to bob, before the expiry the token
\* carries
BeforeExpiry(r) ==
    /\ req[r].verify_calls > 0
    /\ \E t \in IssuePoints :
          /\ req[r].credentials = create_access_token(Bob, t).token
          /\ t <= req[r].at
          /\ req[r].at < req[r].credentials.payload["exp"].n * TicksPerSec

\* C16: a token issued by the service is accepted by get_current_user at
\* every time strictly before its expiry, whatever logins, registrations,
\* requests of others and changes or removals of the user's row have
\* happened since it was issued.
C16_InvalidatedOnlyByExpiry ==
    \A r \in Requests :
        BeforeExpiry(r) =>
            /\ req[r].verified.ok
            /\ req[r].pc \in {"handler", "done"}
            /\ req[r].user = Bob

\* bob's token was accepted one tick before its expiry, after bob logged in
\* again and after his row in the users table was changed
C16_Witness ==
    /\ users # {} /\ BobRow \notin users
    /\ call.op = "create" /\ call.at > 0
    /\ \E r \in Requests :
          /\ req[r].credentials = create_access_token(Bob, 0).token
          /\ req[r].at = ExpireTicks - 1
          /\ req[r].pc = "handler"

----------------------------------------------------------------------------
(* Claims about the leaderboard and fixture endpoints, checked under        *)
(* SpecService                                                              *)

\* the user ids of the administrators: the token identity (user_id,
\* username, email) carries no role, so the set is the deployment's; bob
\* (user_id 2) is not one of them
Admins == {PyInt(1)}

\* C19 (as stated): a request authenticated as a user who is no
\* administrator never causes the complete_fixture, update_fixture_scores
\* or recalculate_all_leaderboards procedure to be called.
C19_AdminOnly ==
    /\ svc.op \in {"complete_fixture", "update_fixture_scores",
                   "recalculate_all_leaderboards"}
    /\ svc.user # NoPayload
    /\ svc.user["user_id"] \notin Admins
    => svc.calls = <<>>

\* C20 (as stated): in the response of GET
\* /fixtures/next-fixtures-with-predictions every fixture of the next game
\* date appears with the user's predicted scores when one of the returned
\* rows holds a prediction of the user for it, and with the fixture's own
\* home_score and away_score otherwise, whatever rows are returned.
C20_PredictedOrOwnScores ==
    svc.op = "next-fixtures-with-predictions" /\ svc.status = 200 =>
        /\ Len(svc.response) = Len(svc.fixtures)
        /\ \A i \in DOMAIN svc.fixtures :
              LET f == svc.fixtures[i]
                  r == svc.response[i]
                  mine == {j \in DOMAIN svc.predicted :
                              /\ svc.predicted[j].match_num = f.match_num
                              /\ svc.predicted[j].pred_home_score # None}
              IN  /\ r.match_num = f.match_num
                  /\ IF mine # {}
                     THEN \E j \in mine :
                             /\ r.home_score = svc.predicted[j].pred_home_score
                             /\ r.away_score = svc.predicted[j].pred_away_score
                     ELSE /\ r.home_score = f.home_score
                          /\ r.away_score = f.away_score

----------------------------------------------------------------------------
(* The data layer: PredictionService over call_procedure, and               *)
(* get_db_cursor / call_procedure of database.py                            *)

\* the rows the procedure get_user_predictions_by_match_range returns:
\* predictions of two fixtures, made in two groups at two times
PredictionRows ==
    [pid : {1, 2}, fixture_id : {1, 2}, prediction_time : {1, 2}]

PredictionResults ==
    {<<>>} \cup {<<p>> : p \in PredictionRows}
    \cup {<<p, q>> : p \in PredictionRows, q \in PredictionRows}
    \cup {<<p, q, r>> : p \in {x \in PredictionRows : x.pid = 1},
                        q \in PredictionRows,
                        r \in {x \in PredictionRows : x.pid = 2}}

\* latest_preds that keeps the last row of each fixture_id
RECURSIVE latest_preds_last(_)
latest_preds_last(result) ==
    IF result = <<>> THEN <<>>
    ELSE LET before == latest_preds_last(SubSeq(result, 1, Len(result) - 1))
             pred == result[Len(result)]
             at == {i \in DOMAIN before : before[i].fixture_id = pred.fixture_id}
         IN  IF at = {} THEN Append(before, pred)
             ELSE [i \in DOMAIN before |-> IF i \in at THEN pred ELSE before[i]]

\* the loop of get_user_predictions_by_match_range
\* (prediction_services.py:116-121): latest_preds after the rows of
\* `result`, as its values in insertion order
RECURSIVE latest_preds(_)
latest_preds(result) ==
    IF result = <<>> THEN <<>>
    ELSE LET before == latest_preds(SubSeq(result, 1, Len(result) - 1))
             pred == result[Len(result)]
             at == {i \in DOMAIN before : before[i].fixture_id = pred.fixture_id}
         IN  IF at = {} THEN Append(before, pred)
             ELSE [i \in DOMAIN before |->
                     IF i \in at /\ pred.prediction_time > before[i].prediction_time
                     THEN pred ELSE before[i]]

\* PredictionService.get_user_predictions_by_match_range, call_procedure
\* returning `result` or raising DatabaseError (failed)
get_user_predictions_by_match_range(result, failed) ==
    IF failed THEN [ok |-> FALSE, exc |-> "DatabaseError", value |-> <<>>]
    ELSE IF result = <<>> THEN [ok |-> TRUE, exc |-> "", value |-> <<>>]
    ELSE [ok |-> TRUE, exc |-> "", value |-> latest_preds(result)]

GetUserPredictionsByMatchRange(result, failed) ==
    /\ svc' = [op |-> "get_user_predictions_by_match_range",
               result |-> result, failed |-> failed,
               res |-> get_user_predictions_by_match_range(result, failed)]
    /\ UNCHANGED <<proc, users, auth_config, build, now, call, req, usedSalts,
                   hashLog, pwcheck>>

\* An exception: its type and its args (pymysql errors carry (code, text),
\* or the text alone)
Exc(type, nargs, code, text) ==
    [type |-> type, nargs |-> nargs, code |-> code, text |-> text]

NoExc == Exc("", 0, 0, "")

\* the errors pymysql raises: a SIGNAL of a procedure, server and client
\* errors around the range of the custom codes, InterfaceError(0, "") on a
\* connection that is gone, and Error("Already closed")
PymysqlErrors ==
    {Exc("pymysql.Error", 2, c, "text") : c \in {999, 1000, 3001, 5999, 6000}}
    \cup {Exc("pymysql.Error", 2, 2013, "Lost connection to MySQL server during query"),
          Exc("pymysql.Error", 2, 0, ""),
          Exc("pymysql.Error", 1, 0, "Already closed")}

\* how the calls of one use of get_db_cursor end: pymysql.connect,
\* connection.cursor(), the body of the with statement, commit and rollback
\* each return (NoExc) or raise; cursor.close() and connection.close()
\* return
DbOutcomes ==
    [connect : {NoExc, Exc("pymysql.Error", 2, 2003, "Can't connect to MySQL server"),
                Exc("TypeError", 1, 0, "")},
     cursor : {NoExc, Exc("pymysql.Error", 2, 0, "")},
     body : {NoExc, Exc("TypeError", 1, 0, "")} \cup PymysqlErrors,
     commit : {NoExc, Exc("pymysql.Error", 2, 2013,
                          "Lost connection to MySQL server during query")},
     rollback : {NoExc, Exc("pymysql.Error", 2, 0, "")}]

\* get_database_connection(), pymysql.connect ending as `outcome`
get_database_connection(outcome) ==
    IF outcome = NoExc THEN [ok |-> TRUE, exc |-> NoExc]
    ELSE IF outcome.type = "pymysql.Error"
    THEN [ok |-> FALSE,
          exc |-> Exc("ConnectionError", 1, 0, "Could not connect to database: {e}")]
    ELSE [ok |-> FALSE,
          exc |-> Exc("ConnectionError", 1, 0, "Database connection error: {e}")]

\* get_db_cursor whose cleanup follows the try statement instead of being
\* its finally clause
get_db_cursor_unguarded(o) ==
    LET connection == get_database_connection(o.connect)
        first == IF o.cursor # NoExc THEN o.cursor
                 ELSE IF o.body # NoExc THEN o.body ELSE o.commit
    IN  IF ~connection.ok
        THEN [calls |-> <<"connect">>, exc |-> connection.exc]
        ELSE IF first # NoExc
        THEN [calls |-> <<"connect", "cursor", "rollback">>,
              exc |-> IF o.rollback # NoExc THEN o.rollback ELSE first]
        ELSE [calls |-> <<"connect", "cursor", "body", "commit",
                          "cursor.close", "connection.close">>,
              exc |-> NoExc]

\* one use of `with get_db_cursor() as cursor: body` (database.py:77-117):
\* the calls made on pymysql, the connection and the cursor, in order, and
\* the exception that leaves the with statement (NoExc: none)
get_db_cursor(o) ==
    LET connection == get_database_connection(o.connect)
        \* the first statement of the try block that raises
        first == IF o.cursor # NoExc THEN o.cursor
                 ELSE IF o.body # NoExc THEN o.body ELSE o.commit
        tried == <<"connect", "cursor">>
                 \o (IF o.cursor # NoExc THEN <<>>
                     ELSE IF o.body # NoExc THEN <<"body">>
                     ELSE <<"body", "commit">>)
        handler == IF first # NoExc THEN <<"rollback">> ELSE <<>>
        finally == (IF o.cursor = NoExc THEN <<"cursor.close">> ELSE <<>>)
                   \o <<"connection.close">>
    IN  IF ~connection.ok
        THEN [calls |-> <<"connect">>, exc |-> connection.exc]
        ELSE [calls |-> tried \o handler \o finally,
              exc |-> IF first = NoExc THEN NoExc
                      ELSE IF o.rollback # NoExc THEN o.rollback
                      ELSE first]

GetDbCursor(o) ==
    /\ svc' = [op |-> "get_db_cursor", o |-> o, res |-> get_db_cursor(o)]
    /\ UNCHANGED <<proc, users, auth_config, build, now, call, req, usedSalts,
                   hashLog, pwcheck>>

\* call_procedure that handles pymysql errors only
call_procedure_narrow(o, rows) ==
    LET with == get_db_cursor(o)
    IN  [calls |-> with.calls,
         exc |-> IF with.exc.type = "pymysql.Error"
                 THEN Exc("DatabaseError", 1, with.exc.code, "[{error_code}] {error_message}")
                 ELSE with.exc,
         result |-> IF with.exc = NoExc THEN rows ELSE <<>>]

\* call_procedure(procedure_name, params) (database.py:147-210), the body
\* of its with statement being callproc, fetchall and nextset, which fetch
\* `rows` or raise o.body; the text of a DatabaseError is the f-string it
\* is formatted with, `code` the error_code put into it
call_procedure(o, rows) ==
    LET with == get_db_cursor(o)
        e == with.exc
    IN  [calls |-> with.calls,
         exc |-> IF e = NoExc THEN NoExc
                 ELSE IF e.type = "pymysql.Error"
                 THEN IF e.nargs >= 2
                      THEN IF 1000 <= e.code /\ e.code <= 5999
                           THEN Exc("DatabaseError", 1, e.code,
                                    "[{error_code}] {error_message}")
                           ELSE Exc("DatabaseError", 1, e.code,
                                    "Database error [{error_code}]: {error_message}")
                      ELSE Exc("DatabaseError", 1, 0,
                               "Procedure '{procedure_name}' failed: {e}")
                 ELSE Exc("DatabaseError", 1, 0,
                          "Procedure '{procedure_name}' failed with params {params}: {e}"),
         result |-> IF e = NoExc THEN rows ELSE <<>>]

CallProcedure(o, rows) ==
    /\ svc' = [op |-> "call_procedure", o |-> o, rows |-> rows,
               res |-> call_procedure(o, rows)]
    /\ UNCHANGED <<proc, users, auth_config, build, now, call, req, usedSalts,
                   hashLog, pwcheck>>

\* AuthService.get_user_by_id(user_id) (auth_services.py:130-158) on the
\* outcome p of call_procedure('get_user_by_id', [user_id]): the user of
\* the first row; None without rows, and None when call_procedure raised
get_user_by_id(p) ==
    IF p.exc # NoExc THEN [exc |-> "", user |-> None]
    ELSE IF p.result = <<>> THEN [exc |-> "", user |-> None]
    ELSE [exc |-> "", user |-> p.result[1]]

\* GET /auth/me and GET /auth/verify-token (routers/auth.py:89-143) with a
\* bearer token, the calls of the lookup ending as o and the procedure
\* returning `rows`; `detail` is the detail of the HTTPException raised,
\* which for status 404 not_found_handler (main.py:163-173) replaces by
\* its own content
AuthMe(name, token, o, rows) ==
    /\ LET g == get_current_user(token, now)
           p == call_procedure(o, rows)
           found == get_user_by_id(p)
           raised == IF ~g.ok THEN g.response
                     ELSE IF found.exc = "DatabaseError"
                     THEN Response(500, IF name = "me"
                                        THEN "Failed to retrieve user profile"
                                        ELSE "Token verification failed", "")
                     ELSE IF found.user = None
                     THEN IF name = "me"
                          THEN Response(404, "User not found", "")
                          ELSE Response(HTTP_401_UNAUTHORIZED,
                                        "Token user not found", "Bearer")
                     ELSE Response(200, "", "")
       IN  svc' = [op |-> name, current_user |-> g.user,
                   lookup |-> IF g.ok THEN p ELSE call_procedure(o, <<>>),
                   looked_up |-> g.ok,
                   response |-> IF raised.status = 404
                                THEN Response(404, "The requested endpoint was not found", "")
                                ELSE raised]
    /\ UNCHANGED <<proc, users, auth_config, build, now, call, req, usedSalts,
                   hashLog, pwcheck>>

InitData ==
    /\ auth_config = AuthConfig("secret-A", DefaultExpireHours)
    /\ build = CHOOSE b \in Builds : b.bearer_status = HTTP_401_UNAUTHORIZED
    /\ proc = Started
    /\ users = {}
    /\ svc = NoSvc
    /\ now = 0
    /\ call = NoCall
    /\ req = [r \in Requests |-> IdleReq]
    /\ usedSalts = {}
    /\ hashLog = <<>>
    /\ pwcheck = NoCheck

NextData ==
    \/ \E result \in PredictionResults : \E failed \in BOOLEAN :
          GetUserPredictionsByMatchRange(result, failed)
    \/ \E o \in DbOutcomes : GetDbCursor(o)
    \/ \E o \in DbOutcomes : \E rows \in {<<>>, <<[exists |-> 1]>>} :
          CallProcedure(o, rows)
    \/ \E name \in {"me", "verify-token"} : \E presented \in ConcurrentPresentable :
       \E o \in {x \in DbOutcomes : /\ x.cursor = NoExc /\ x.commit = NoExc
                                    /\ x.rollback = NoExc
                                    /\ x.body.code \in {0, 2013}} :
       \E rows \in {<<>>, <<BobRow>>} :
          AuthMe(name, presented.token, o, rows)

SpecData == InitData /\ [][NextData]_vars

----------------------------------------------------------------------------
(* C21: the latest prediction of each fixture *)

\* C21: get_user_predictions_by_match_range returns exactly one entry for
\* each fixture_id among the rows of the procedure, that entry is one of
\* the rows and no row of its fixture_id has a later prediction_time; and
\* no rows give the empty list
C21_LatestPerFixture ==
    (svc.op = "get_user_predictions_by_match_range" /\ ~svc.failed) =>
        LET rows == svc.result
            out == svc.res.value
        IN  /\ svc.res.ok
            /\ \A i \in DOMAIN rows :
                  Cardinality({j \in DOMAIN out :
                                  out[j].fixture_id = rows[i].fixture_id}) = 1
            /\ \A j \in DOMAIN out :
                  /\ \E i \in DOMAIN rows : rows[i] = out[j]
                  /\ \A k \in DOMAIN rows :
                        rows[k].fixture_id = out[j].fixture_id
                        => rows[k].prediction_time <= out[j].prediction_time
            /\ rows = <<>> => out = <<>>

\* three rows of two fixtures, the later prediction of fixture 1 coming
\* first, reduced to the two latest
C21_Witness ==
    /\ svc.op = "get_user_predictions_by_match_range"
    /\ ~svc.failed
    /\ Len(svc.result) = 3
    /\ svc.result[1].fixture_id = 1 /\ svc.result[1].prediction_time = 2
    /\ svc.result[2].fixture_id = 2
    /\ svc.result[3].fixture_id = 1 /\ svc.result[3].prediction_time = 1
    /\ svc.res.value = <<svc.result[1], svc.result[2]>>

----------------------------------------------------------------------------
(* C23, C24: get_db_cursor commits, rolls back and closes *)

Called(res, c) == \E i \in DOMAIN res.calls : res.calls[i] = c

\* C23: with a connection established, a body that completes is followed
\* by commit; when the body or the commit raises, rollback is called and
\* the exception that leaves the with statement is the one that was
\* raised; and without an exception commit has been called
C23_CommitOrRollbackAndOriginal ==
    (svc.op = "get_db_cursor" /\ svc.o.connect = NoExc /\ svc.o.cursor = NoExc) =>
        LET original == IF svc.o.body # NoExc THEN svc.o.body ELSE svc.o.commit
        IN  /\ svc.o.body = NoExc => Called(svc.res, "commit")
            /\ original # NoExc =>
                  Called(svc.res, "rollback") /\ svc.res.exc = original
            /\ svc.res.exc = NoExc => Called(svc.res, "commit")

\* C24: a connection that was opened is closed exactly once, as the last
\* call of the context, whether the body, the creation of the cursor, the
\* commit or the rollback fails or nothing does; when no connection could
\* be established neither rollback nor close is called and ConnectionError
\* leaves the context
C24_ClosedExactlyOnce ==
    svc.op = "get_db_cursor" =>
        LET calls == svc.res.calls
        IN  IF svc.o.connect = NoExc
            THEN /\ Cardinality({i \in DOMAIN calls : calls[i] = "connection.close"}) = 1
                 /\ calls[Len(calls)] = "connection.close"
            ELSE /\ \A i \in DOMAIN calls :
                       calls[i] \notin {"rollback", "cursor.close", "connection.close"}
                 /\ svc.res.exc.type = "ConnectionError"

\* the commit fails, then the rollback fails, and the connection is closed
C24_Witness ==
    /\ svc.op = "get_db_cursor"
    /\ svc.o.connect = NoExc /\ svc.o.cursor = NoExc /\ svc.o.body = NoExc
    /\ svc.o.commit # NoExc /\ svc.o.rollback # NoExc
    /\ svc.res.calls = <<"connect", "cursor", "body", "commit", "rollback",
                         "cursor.close", "connection.close">>
    /\ svc.res.exc = svc.o.rollback

----------------------------------------------------------------------------
(* C25: call_procedure returns rows or raises DatabaseError *)

\* C25: call_procedure returns the rows or raises DatabaseError, whatever
\* the connection, the cursor, the procedure, the commit and the rollback
\* raise; a pymysql error (code, text) leaving the with statement is
\* reported as "[code] text" when 1000 <= code <= 5999 and as
\* "Database error [code]: text" otherwise
C25_RowsOrDatabaseError ==
    svc.op = "call_procedure" =>
        LET e == get_db_cursor(svc.o).exc
            raised == svc.res.exc
        IN  /\ \/ raised = NoExc /\ svc.res.result = svc.rows /\ e = NoExc
               \/ raised.type = "DatabaseError" /\ e # NoExc
            /\ (e.type = "pymysql.Error" /\ e.nargs >= 2) =>
                  /\ raised.code = e.code
                  /\ raised.text = IF e.code \in 1000..5999
                                   THEN "[{error_code}] {error_message}"
                                   ELSE "Database error [{error_code}]: {error_message}"

\* a connection that cannot be established reaches the caller of
\* call_procedure as DatabaseError
C25_Witness ==
    /\ svc.op = "call_procedure"
    /\ svc.o.connect # NoExc
    /\ get_db_cursor(svc.o).exc.type = "ConnectionError"
    /\ svc.res.exc.type = "DatabaseError"

----------------------------------------------------------------------------
(* Registrations in flight: validate_registration_data and create_user of   *)
(* one request interleave with those of other requests                      *)

\* the procedures check_username_exists and check_email_exists over the
\* users table: names and addresses are compared without regard to case
exists_procedure(column, value) ==
    IF \E u \in users : py_lower(u[column].cp) = py_lower(value.cp)
    THEN "1" ELSE "0"

\* the procedure create_user: it signals 3001 for a username that exists,
\* 3002 for an email that exists, and inserts the row otherwise
create_user_procedure(username, email) ==
    IF exists_procedure("username", username) = "1"
    THEN Exc("pymysql.Error", 2, 3001, "Username already exists")
    ELSE IF exists_procedure("email", email) = "1"
    THEN Exc("pymysql.Error", 2, 3002, "Email already exists")
    ELSE NoExc

\* the bodies of registrations that reach register_user: one name in two
\* spellings, with a password of 8 and one of 73 characters, and another
\* name and another address
RegistrationBodies ==
    LET Body(u, e, p) == [username |-> Str(u), email |-> Str(e), password |-> Str(p)]
        Passw0rd == <<80, 97, 115, 115, 119, 48, 114, 100>>
    IN  {Body(<<66, 111, 98>>, <<65, 64, 120>>, Passw0rd),
         Body(<<98, 111, 98>>, <<98, 64, 120>>, Passw0rd),
         Body(<<98, 111, 98>>, <<98, 64, 120>>, Rep(BcryptMaxBytes, 97) \o <<49>>),
         Body(<<65, 45, 49>>, <<65, 64, 120>>, Passw0rd)}

\* register_user up to the end of validate_registration_data
\* (routers/auth.py:26-33); the calls of the checks named in `failed` end
\* with a DatabaseError
ValidateRegistration(r, body, failed) ==
    /\ req[r].pc = "idle"
    /\ LET user_data == UserCreate(body)
           Answer(column) == IF column \in failed THEN "error"
                             ELSE exists_procedure(column, user_data[column])
           v == validate_registration_data(user_data, Answer("username"),
                                           Answer("email"))
       IN  req' = [req EXCEPT ![r] =
                [pc |-> IF v.valid THEN "validated" ELSE "registered",
                 body |-> body,
                 status |-> IF v.valid THEN 0 ELSE 400,
                 detail |-> v.msg,
                 duplicate |-> create_user_procedure(user_data.username,
                                                     user_data.email).code,
                 dberror |-> \/ Answer("username") = "error"
                             \/ Len(v.calls) = 2 /\ Answer("email") = "error",
                 create_user_called |-> FALSE,
                 inserted |-> FALSE]]
    /\ UNCHANGED <<proc, users, svc, auth_config, build, now, call, usedSalts,
                   hashLog, pwcheck>>

\* register_user from create_user on (routers/auth.py:35-51): the
\* procedure signals, or inserts and returns the row, unless the database
\* cannot be reached
CreateUser(r, db_up) ==
    /\ req[r].pc = "validated"
    /\ Cardinality(usedSalts) < MaxHashes
    /\ LET user_data == UserCreate(req[r].body)
           signal == create_user_procedure(user_data.username, user_data.email)
           o == [connect |-> IF db_up THEN NoExc
                             ELSE Exc("pymysql.Error", 2, 2003,
                                      "Can't connect to MySQL server"),
                 cursor |-> NoExc, body |-> signal, commit |-> NoExc,
                 rollback |-> NoExc]
           p == call_procedure(o, IF signal = NoExc THEN <<"row">> ELSE <<>>)
           \* "[3001]" in str(e), "[3002]" in str(e)
           outcome == CASE p.exc = NoExc -> "row"
                        [] p.exc.code = 3001 /\ p.exc.text \in
                              {"[{error_code}] {error_message}",
                               "Database error [{error_code}]: {error_message}"}
                           -> "3001"
                        [] p.exc.code = 3002 /\ p.exc.text \in
                              {"[{error_code}] {error_message}",
                               "Database error [{error_code}]: {error_message}"}
                           -> "3002"
                        [] OTHER -> "error"
           res == register_user(req[r].body, FreshSalt,
                                [username_exists |-> "0", email_exists |-> "0",
                                 create |-> outcome])
           called == Len(res.calls) = 3
           inserted == called /\ p.exc = NoExc
       IN  /\ req' = [req EXCEPT ![r] =
                 [@ EXCEPT !.pc = "registered", !.status = res.status,
                           !.detail = res.detail, !.duplicate = signal.code,
                           !.dberror = @ \/ (called /\ ~db_up),
                           !.create_user_called = TRUE,
                           !.inserted = inserted]]
           /\ users' = IF inserted
                       THEN users \cup {[user_id |-> Cardinality(users) + 1,
                                         username |-> user_data.username,
                                         email |-> user_data.email,
                                         password |-> res.hash.hash]}
                       ELSE users
           /\ usedSalts' = IF res.hash.ok \/ res.hash.exc # ""
                           THEN usedSalts \cup {FreshSalt} ELSE usedSalts
    /\ UNCHANGED <<proc, svc, auth_config, build, now, call, hashLog, pwcheck>>

\* the response of a registration has been sent
RegistrationResponse(r) ==
    /\ req[r].pc = "registered"
    /\ req' = [req EXCEPT ![r] = IdleReq]
    /\ UNCHANGED <<proc, users, svc, auth_config, build, now, call, usedSalts,
                   hashLog, pwcheck>>

NextRegistration ==
    \/ \E r \in Requests : \E body \in RegistrationBodies :
       \E failed \in {{}, {"username"}, {"email"}} :
          ValidateRegistration(r, body, failed)
    \/ \E r \in Requests : \E db_up \in BOOLEAN : CreateUser(r, db_up)
    \/ \E r \in Requests : RegistrationResponse(r)

SpecRegistration == InitAccounts /\ [][NextRegistration]_vars

----------------------------------------------------------------------------
(* C22: a name or an address is registered once *)

\* C22: no two accounts share a username or an email, and a registration
\* that ends while its username (its email) exists, all its procedure
\* calls having been answered, is answered with 400 "Username already
\* exists" ("Email already exists") and inserts nothing
C22_DuplicateRejected ==
    /\ \A u \in users : \A v \in users :
          (py_lower(u.username.cp) = py_lower(v.username.cp)
             \/ py_lower(u.email.cp) = py_lower(v.email.cp)) => u = v
    /\ \A r \in Requests :
          (req[r].pc = "registered" /\ req[r].duplicate # 0 /\ ~req[r].dberror) =>
              /\ ~req[r].inserted
              /\ req[r].status = 400
              /\ req[r].detail = IF req[r].duplicate = 3001
                                 THEN "Username already exists"
                                 ELSE "Email already exists"

----------------------------------------------------------------------------
(* C27: a failed existence check *)

\* C27: a registration one of whose existence checks ended with a database
\* error is refused with 400 "Validation failed due to system error", and
\* create_user is not called for it
C27_SystemErrorRefuses ==
    \A r \in Requests :
        (req[r].pc \in {"validated", "registered"} /\ req[r].dberror
           /\ ~req[r].create_user_called) =>
            /\ req[r].pc = "registered"
            /\ req[r].status = 400
            /\ req[r].detail = "Validation failed due to system error"

----------------------------------------------------------------------------
(* C26: a database failure during the lookup of the token's user *)

\* C26: GET /auth/me and GET /auth/verify-token with a valid token, the
\* lookup of the token's user failing with a database error, answer with
\* 500 "Failed to retrieve user profile" and 500 "Token verification
\* failed", not with 404 or 401
C26_LookupFailureIs500 ==
    (svc.op \in {"me", "verify-token"} /\ svc.looked_up /\ svc.lookup.exc # NoExc) =>
        /\ svc.response.status = 500
        /\ svc.response.detail = IF svc.op = "me"
                                 THEN "Failed to retrieve user profile"
                                 ELSE "Token verification failed"

----------------------------------------------------------------------------
(* C28: a token is issued to an authenticated login only *)

\* the user of the login was found and verify_password accepted the
\* password against the stored hash
Authenticated ==
    LET login_data == LoginRequest(svc.body)
    IN  /\ svc.lookup = "rows"
        /\ \E u \in users :
              /\ u.username = login_data.username
              /\ verify_password(login_data.password, u.password).value

====
